---- MODULE Spec2Model ----
(***************************************************************************)
(* radex: permission-scoped retrieval.  A model of the permission service  *)
(* (server/app/services/permission_service.py), the vector search          *)
(* (server/app/services/embedding_service.py) and the RAG orchestrator     *)
(* (server/app/services/rag_service.py) over the relational store          *)
(* (server/app/models).                                                    *)
(***************************************************************************)
EXTENDS Integers, Sequences, FiniteSets, TLC

VARIABLES folders, perms, docs, embs, rag, jobs, last

vars == <<folders, perms, docs, embs, rag, jobs, last>>

(***************************************************************************)
(* The user table.  Registration and user administration are outside the   *)
(* model: the population is fixed, "admin" is the account created by       *)
(* create_admin_user.py with is_superuser = True, every other account is   *)
(* registered with is_superuser = False.                                   *)
(***************************************************************************)
Users == {"admin", "alice", "bob"}

is_superuser(user_id) == user_id = "admin"

\* Folder ids.  "fx" is an id no folder row ever carries.
FolderIds == {"f1", "f2", "f3"}

MissingFolder == "fx"

AnyFolderId == FolderIds \cup {MissingFolder}

\* parent_id IS NULL
NoParent == "null"

PermissionTypes == {"read", "write", "delete", "admin"}

\* The four boolean arguments of grant_permission.
Flags(r, w, d, a) == [can_read |-> r, can_write |-> w, can_delete |-> d, is_admin |-> a]

NoFlags == Flags(FALSE, FALSE, FALSE, FALSE)

ReadOnly == Flags(TRUE, FALSE, FALSE, FALSE)

WriteDelete == Flags(FALSE, TRUE, TRUE, FALSE)

AdminOnly == Flags(FALSE, FALSE, FALSE, TRUE)

FlagChoices == {NoFlags, ReadOnly, WriteDelete, AdminOnly}

\* Bound: the number of Permission rows the store holds at once.
MaxPerms == 2

(***************************************************************************)
(* Tables.                                                                 *)
(*   folders : id -> [name, parent_id, owner_id, path]   (id is the key)   *)
(*   perms   : set of Permission rows                                      *)
(***************************************************************************)
Folder(name, parent_id, owner_id, path) ==
    [name |-> name, parent_id |-> parent_id, owner_id |-> owner_id, path |-> path]

Permission(user_id, folder_id, flags, granted_by) ==
    [user_id |-> user_id, folder_id |-> folder_id,
     can_read |-> flags.can_read, can_write |-> flags.can_write,
     can_delete |-> flags.can_delete, is_admin |-> flags.is_admin,
     granted_by |-> granted_by]

\* db.query(Permission).filter(user_id ==, folder_id ==)
PermissionRows(user_id, folder_id) ==
    {p \in perms : p.user_id = user_id /\ p.folder_id = folder_id}

\* Query.first(): one row of the result, None when there is none.
None == [none |-> TRUE]

First(rows) == IF rows = {} THEN None ELSE CHOOSE p \in rows : TRUE

(***************************************************************************)
(* PermissionService.check_folder_permission.  The result is "True",       *)
(* "False", or "NotFound" when NotFoundException is raised.                *)
(***************************************************************************)
RECURSIVE check_no_superuser(_, _, _)
check_no_superuser(user_id, folder_id, permission_type) ==
    IF folder_id \notin DOMAIN folders THEN "NotFound"
    ELSE IF folders[folder_id].owner_id = user_id THEN "True"
    ELSE LET permission == First(PermissionRows(user_id, folder_id))
             direct == /\ permission # None
                       /\ \/ permission.is_admin
                          \/ permission_type = "read" /\ permission.can_read
                          \/ permission_type = "write" /\ permission.can_write
                          \/ permission_type = "delete" /\ permission.can_delete
         IN  IF direct THEN "True"
             ELSE IF folders[folder_id].parent_id # NoParent
                  THEN check_no_superuser(user_id, folders[folder_id].parent_id, permission_type)
                  ELSE "False"

RECURSIVE check_no_owner(_, _, _)
check_no_owner(user_id, folder_id, permission_type) ==
    IF is_superuser(user_id) THEN "True"
    ELSE IF folder_id \notin DOMAIN folders THEN "NotFound"
    ELSE LET permission == First(PermissionRows(user_id, folder_id))
             direct == /\ permission # None
                       /\ \/ permission.is_admin
                          \/ permission_type = "read" /\ permission.can_read
                          \/ permission_type = "write" /\ permission.can_write
                          \/ permission_type = "delete" /\ permission.can_delete
         IN  IF direct THEN "True"
             ELSE IF folders[folder_id].parent_id # NoParent
                  THEN check_no_owner(user_id, folders[folder_id].parent_id, permission_type)
                  ELSE "False"

RECURSIVE check_child_row_decides(_, _, _)
check_child_row_decides(user_id, folder_id, permission_type) ==
    IF is_superuser(user_id) THEN "True"
    ELSE IF folder_id \notin DOMAIN folders THEN "NotFound"
    ELSE IF folders[folder_id].owner_id = user_id THEN "True"
    ELSE LET permission == First(PermissionRows(user_id, folder_id))
             direct == /\ permission # None
                       /\ \/ permission.is_admin
                          \/ permission_type = "read" /\ permission.can_read
                          \/ permission_type = "write" /\ permission.can_write
                          \/ permission_type = "delete" /\ permission.can_delete
         IN  IF direct THEN "True"
             ELSE IF permission # None THEN "False"
             ELSE IF folders[folder_id].parent_id # NoParent
                  THEN check_child_row_decides(user_id, folders[folder_id].parent_id, permission_type)
                  ELSE "False"

RECURSIVE check_missing_is_false(_, _, _)
check_missing_is_false(user_id, folder_id, permission_type) ==
    IF is_superuser(user_id) THEN "True"
    ELSE IF folder_id \notin DOMAIN folders THEN "False"
    ELSE IF folders[folder_id].owner_id = user_id THEN "True"
    ELSE LET permission == First(PermissionRows(user_id, folder_id))
             direct == /\ permission # None
                       /\ \/ permission.is_admin
                          \/ permission_type = "read" /\ permission.can_read
                          \/ permission_type = "write" /\ permission.can_write
                          \/ permission_type = "delete" /\ permission.can_delete
         IN  IF direct THEN "True"
             ELSE IF folders[folder_id].parent_id # NoParent
                  THEN check_missing_is_false(user_id, folders[folder_id].parent_id, permission_type)
                  ELSE "False"

RECURSIVE check_write_reads(_, _, _)
check_write_reads(user_id, folder_id, permission_type) ==
    IF is_superuser(user_id) THEN "True"
    ELSE IF folder_id \notin DOMAIN folders THEN "NotFound"
    ELSE IF folders[folder_id].owner_id = user_id THEN "True"
    ELSE LET permission == First(PermissionRows(user_id, folder_id))
             direct == /\ permission # None
                       /\ \/ permission.is_admin
                          \/ permission_type = "read" /\ (permission.can_read \/ permission.can_write)
                          \/ permission_type = "write" /\ permission.can_write
                          \/ permission_type = "delete" /\ permission.can_delete
         IN  IF direct THEN "True"
             ELSE IF folders[folder_id].parent_id # NoParent
                  THEN check_write_reads(user_id, folders[folder_id].parent_id, permission_type)
                  ELSE "False"

RECURSIVE check_folder_permission(_, _, _)
check_folder_permission(user_id, folder_id, permission_type) ==
    IF is_superuser(user_id) THEN "True"
    ELSE IF folder_id \notin DOMAIN folders THEN "NotFound"
    ELSE IF folders[folder_id].owner_id = user_id THEN "True"
    ELSE LET permission == First(PermissionRows(user_id, folder_id))
             direct == /\ permission # None
                       /\ \/ permission.is_admin
                          \/ permission_type = "read" /\ permission.can_read
                          \/ permission_type = "write" /\ permission.can_write
                          \/ permission_type = "delete" /\ permission.can_delete
         IN  IF direct THEN "True"
             ELSE IF folders[folder_id].parent_id # NoParent
                  THEN check_folder_permission(user_id, folders[folder_id].parent_id, permission_type)
                  ELSE "False"

(***************************************************************************)
(* PermissionService.get_user_accessible_folders, as the list of the ids   *)
(* of the folders it returns.  Rows come back from the store in id order.  *)
(***************************************************************************)
FolderOrder == <<"f1", "f2", "f3">>

\* db.query(Folder).filter(...).all() for the folders whose id is in ids
FoldersAll(ids) == SelectSeq(FolderOrder, LAMBDA f : f \in DOMAIN folders /\ f \in ids)

SeqToSet(s) == {s[i] : i \in 1..Len(s)}

\* list({f.id: f for f in all_folders}.values()): first occurrences, in order
RECURSIVE Deduplicate(_)
Deduplicate(s) ==
    IF s = <<>> THEN <<>>
    ELSE LET front == Deduplicate(SubSeq(s, 1, Len(s) - 1))
             x == s[Len(s)]
         IN  IF x \in SeqToSet(front) THEN front ELSE Append(front, x)

\* the Permission rows of user_id with at least one flag true (the or_ filter)
FlaggedRows(user_id) ==
    {p \in perms : /\ p.user_id = user_id
                   /\ (p.can_read \/ p.can_write \/ p.can_delete \/ p.is_admin)}

accessible_no_dedup(user_id) ==
    IF is_superuser(user_id) THEN FoldersAll(FolderIds)
    ELSE LET owned_folders ==
                 FoldersAll({f \in DOMAIN folders : folders[f].owner_id = user_id})
             permitted_folder_ids == {p.folder_id : p \in FlaggedRows(user_id)}
             permitted_folders ==
                 IF permitted_folder_ids # {} THEN FoldersAll(permitted_folder_ids) ELSE <<>>
         IN  owned_folders \o permitted_folders

get_user_accessible_folders(user_id) ==
    IF is_superuser(user_id) THEN FoldersAll(FolderIds)
    ELSE LET owned_folders ==
                 FoldersAll({f \in DOMAIN folders : folders[f].owner_id = user_id})
             permitted_folder_ids == {p.folder_id : p \in FlaggedRows(user_id)}
             permitted_folders ==
                 IF permitted_folder_ids # {} THEN FoldersAll(permitted_folder_ids) ELSE <<>>
             all_folders == owned_folders \o permitted_folders
         IN  Deduplicate(all_folders)

(***************************************************************************)
(* The store's constraints on the permissions table, checked at commit:    *)
(* unique (user_id, folder_id) and the foreign key folder_id -> folders.   *)
(***************************************************************************)
PermissionInsertAllowed(row) ==
    /\ PermissionRows(row.user_id, row.folder_id) = {}
    /\ row.folder_id \in DOMAIN folders
    /\ row.user_id \in Users

(***************************************************************************)
(* PermissionService.grant_permission: [outcome, perms], the table after   *)
(* the call.  outcome is "ok", or the exception raised.                    *)
(***************************************************************************)
\* lines 98-105: "ok" when the granter may grant on the folder
GrantAuthorization(granter_id, folder_id) ==
    IF is_superuser(granter_id) THEN "ok"
    ELSE LET c == check_folder_permission(granter_id, folder_id, "admin")
         IN  IF c = "NotFound" THEN "NotFound"
             ELSE IF c = "True" THEN "ok"
             ELSE IF folder_id \notin DOMAIN folders
                     \/ folders[folder_id].owner_id # granter_id
                  THEN "PermissionDenied"
                  ELSE "ok"

grant_always_inserts(granter_id, user_id, folder_id, flags) ==
    LET auth == GrantAuthorization(granter_id, folder_id)
        row == Permission(user_id, folder_id, flags, granter_id)
    IN  IF auth # "ok" THEN [outcome |-> auth, perms |-> perms]
        ELSE IF PermissionInsertAllowed(row)
             THEN [outcome |-> "ok", perms |-> perms \cup {row}]
             ELSE [outcome |-> "IntegrityError", perms |-> perms]

grant_unchecked(granter_id, user_id, folder_id, flags) ==
    LET existing_permission == First(PermissionRows(user_id, folder_id))
        row == Permission(user_id, folder_id, flags, granter_id)
    IN  IF existing_permission # None
        THEN [outcome |-> "ok", perms |-> (perms \ {existing_permission}) \cup {row}]
        ELSE IF PermissionInsertAllowed(row)
             THEN [outcome |-> "ok", perms |-> perms \cup {row}]
             ELSE [outcome |-> "IntegrityError", perms |-> perms]

grant_permission(granter_id, user_id, folder_id, flags) ==
    LET auth == GrantAuthorization(granter_id, folder_id)
        existing_permission == First(PermissionRows(user_id, folder_id))
        row == Permission(user_id, folder_id, flags, granter_id)
    IN  IF auth # "ok" THEN [outcome |-> auth, perms |-> perms]
        ELSE IF existing_permission # None
             THEN [outcome |-> "ok", perms |-> (perms \ {existing_permission}) \cup {row}]
             ELSE IF PermissionInsertAllowed(row)
                  THEN [outcome |-> "ok", perms |-> perms \cup {row}]
                  ELSE [outcome |-> "IntegrityError", perms |-> perms]

(***************************************************************************)
(* PermissionService.revoke_permission: [outcome, perms]; outcome is       *)
(* "True", "False", or the exception raised.                               *)
(***************************************************************************)
\* lines 144-153
RevokeAuthorization(revoker_id, folder_id) ==
    IF is_superuser(revoker_id) THEN "ok"
    ELSE IF folder_id \notin DOMAIN folders THEN "NotFound"
    ELSE IF folders[folder_id].owner_id # revoker_id
            /\ check_folder_permission(revoker_id, folder_id, "admin") # "True"
         THEN "PermissionDenied"
         ELSE "ok"

revoke_keeps_row(revoker_id, user_id, folder_id) ==
    LET auth == RevokeAuthorization(revoker_id, folder_id)
        permission == First(PermissionRows(user_id, folder_id))
    IN  IF auth # "ok" THEN [outcome |-> auth, perms |-> perms]
        ELSE IF permission # None
             THEN [outcome |-> "True", perms |-> perms]
             ELSE [outcome |-> "False", perms |-> perms]

revoke_permission(revoker_id, user_id, folder_id) ==
    LET auth == RevokeAuthorization(revoker_id, folder_id)
        permission == First(PermissionRows(user_id, folder_id))
    IN  IF auth # "ok" THEN [outcome |-> auth, perms |-> perms]
        ELSE IF permission # None
             THEN [outcome |-> "True", perms |-> perms \ {permission}]
             ELSE [outcome |-> "False", perms |-> perms]

(***************************************************************************)
(* Documents and embeddings.                                               *)
(*   docs : id -> [folder_id, filename]                                    *)
(*   embs : set of Embedding rows [document_id, chunk_index, embedding]    *)
(* An embedding vector is a unit vector at a multiple of 60 degrees; the   *)
(* cosine similarity of two of them, in tenths, is 10, 5, -5 or -10.       *)
(***************************************************************************)
Document(folder_id, filename) == [folder_id |-> folder_id, filename |-> filename]

Embedding(document_id, chunk_index, embedding) ==
    [document_id |-> document_id, chunk_index |-> chunk_index, embedding |-> embedding]

Vecs == 0..3

\* 1 - (e.embedding <=> query), in tenths
CosineSimilarity(a, b) ==
    LET d == IF a >= b THEN a - b ELSE b - a
    IN  CASE d = 0 -> 10 [] d = 1 -> 5 [] d = 2 -> -5 [] OTHER -> -10

\* RAGQuery.min_relevance_score in [0.0, 1.0], in tenths; 7 is the default
MinSimilarities == {0, 7, 10}

\* Bound: RAGQuery.limit ranges over 1..MaxLimit.
MaxLimit == 2

\* one row of the SELECT: embeddings JOIN documents JOIN folders
Chunk(e, query_embedding) ==
    [document_id |-> e.document_id,
     folder_id |-> docs[e.document_id].folder_id,
     chunk_index |-> e.chunk_index,
     similarity_score |-> CosineSimilarity(e.embedding, query_embedding)]

\* the rows of the two JOINs: the document and its folder exist
Joined(query_embedding) ==
    {Chunk(e, query_embedding) :
        e \in {x \in embs : /\ x.document_id \in DOMAIN docs
                            /\ docs[x.document_id].folder_id \in DOMAIN folders}}

\* ORDER BY distance: every ordering of rows by non-increasing similarity
\* (rows of equal distance come in any order)
RECURSIVE Orderings(_)
Orderings(rows) ==
    IF rows = {} THEN {<<>>}
    ELSE UNION {{<<m>> \o t : t \in Orderings(rows \ {m})} :
                   m \in {x \in rows :
                             \A y \in rows : y.similarity_score <= x.similarity_score}}

\* LIMIT
Limit(s, limit) == SubSeq(s, 1, IF Len(s) < limit THEN Len(s) ELSE limit)

(***************************************************************************)
(* EmbeddingService.search_similar_chunks: the set of its possible         *)
(* returns, each [outcome, chunks].  With no folder id the statement reads *)
(* "IN ()", the store rejects it and the except clause raises BadRequest.  *)
(***************************************************************************)
search_no_folder_filter(query_embedding, folder_ids, limit, min_similarity) ==
    IF folder_ids = <<>> THEN {[outcome |-> "BadRequest", chunks |-> <<>>]}
    ELSE LET rows == {c \in Joined(query_embedding) :
                         c.similarity_score >= min_similarity}
         IN  {[outcome |-> "ok", chunks |-> Limit(s, limit)] : s \in Orderings(rows)}

search_no_threshold(query_embedding, folder_ids, limit, min_similarity) ==
    IF folder_ids = <<>> THEN {[outcome |-> "BadRequest", chunks |-> <<>>]}
    ELSE LET rows == {c \in Joined(query_embedding) :
                         c.folder_id \in SeqToSet(folder_ids)}
         IN  {[outcome |-> "ok", chunks |-> Limit(s, limit)] : s \in Orderings(rows)}

search_similar_chunks(query_embedding, folder_ids, limit, min_similarity) ==
    IF folder_ids = <<>> THEN {[outcome |-> "BadRequest", chunks |-> <<>>]}
    ELSE LET rows == {c \in Joined(query_embedding) :
                         /\ c.folder_id \in SeqToSet(folder_ids)
                         /\ c.similarity_score >= min_similarity}
         IN  {[outcome |-> "ok", chunks |-> Limit(s, limit)] : s \in Orderings(rows)}

(***************************************************************************)
(* RAGService._get_accessible_folders.  requested_folder_ids is            *)
(* [given, ids]: None is given = FALSE.                                    *)
(***************************************************************************)
Requested(ids) == [given |-> TRUE, ids |-> ids]

NotRequested == [given |-> FALSE, ids |-> <<>>]

\* Python truth value of an Optional[List]
Truthy(requested_folder_ids) ==
    requested_folder_ids.given /\ requested_folder_ids.ids # <<>>

get_accessible_unfiltered(user_id, requested_folder_ids) ==
    IF Truthy(requested_folder_ids) THEN requested_folder_ids.ids
    ELSE get_user_accessible_folders(user_id)

get_accessible_folders(user_id, requested_folder_ids) ==
    LET accessible_folder_ids == get_user_accessible_folders(user_id)
    IN  IF Truthy(requested_folder_ids)
        THEN SelectSeq(requested_folder_ids.ids,
                       LAMBDA folder_id : folder_id \in SeqToSet(accessible_folder_ids))
        ELSE accessible_folder_ids

(***************************************************************************)
(* RAGService.query and RAGService.chat, one request at a time.  rag is    *)
(* the request in flight: pc names the step it waits to take.              *)
(*   "embed"       the embedding service is to answer                      *)
(*   "reformulate" (chat) _reformulate_query is to run                     *)
(*   "search"      search_similar_chunks is to run                         *)
(*   "answer"      the completion service is to answer                     *)
(*   "done"        the response or the exception is ready                  *)
(***************************************************************************)
Request(pc, kind, user_id, requested, messages, enumerated, accessible_folders, outcome) ==
    [pc |-> pc, kind |-> kind, user_id |-> user_id, requested |-> requested,
     messages |-> messages,
     enumerated |-> enumerated,
     accessible_folders |-> accessible_folders,
     query |-> "", query_embedding |-> 0, searched |-> <<>>, similar_chunks |-> <<>>,
     reformulate_calls |-> 0, embed_calls |-> 0, search_calls |-> 0,
     outcome |-> outcome]

\* lines 28-36 and 325-338: resolve the allow-list, fail fast when it is empty
start_no_gate(kind, user_id, requested, messages) ==
    LET accessible_folders == get_accessible_folders(user_id, requested)
        enumerated == get_user_accessible_folders(user_id)
    IN  Request(IF kind = "chat" THEN "reformulate" ELSE "embed", kind, user_id,
                requested, messages, enumerated, accessible_folders, "pending")

start(kind, user_id, requested, messages) ==
    LET accessible_folders == get_accessible_folders(user_id, requested)
        enumerated == get_user_accessible_folders(user_id)
    IN  IF kind = "chat" /\ messages = <<>>
        THEN Request("done", kind, user_id, requested, messages, <<>>, <<>>, "BadRequest")
        ELSE IF accessible_folders = <<>>
        THEN Request("done", kind, user_id, requested, messages, enumerated,
                     accessible_folders, "PermissionDenied")
        ELSE Request(IF kind = "chat" THEN "reformulate" ELSE "embed", kind, user_id,
                     requested, messages, enumerated, accessible_folders, "pending")

(***************************************************************************)
(* RAGService._reformulate_query on a list of ChatMessage [role, content]: *)
(* the set of its possible returns [outcome, calls, query], calls the      *)
(* number of completion calls made.  The completion service raises, or     *)
(* answers one of InferenceOutputs.                                        *)
(***************************************************************************)
ChatMessage(role, content) == [role |-> role, content |-> content]

InferenceOutputs ==
    {"", "  ", "abc", " abcd ", "standalone question", " standalone question "}

\* max_history of _reformulate_query and context_window_size of chat
MaxHistory == 5

\* messages[-n:]
Trailing(messages, n) ==
    IF Len(messages) > n THEN SubSeq(messages, Len(messages) - n + 1, Len(messages))
    ELSE messages

\* line 265: messages[-(max_history + 1):-1] if len(messages) > max_history
\* else messages[:-1]
context_of(messages) ==
    IF Len(messages) > MaxHistory
    THEN SubSeq(messages, Len(messages) - MaxHistory, Len(messages) - 1)
    ELSE SubSeq(messages, 1, Len(messages) - 1)

\* response.choices[0].message.content.strip() on InferenceOutputs
strip_content(content) ==
    CASE content = "  " -> ""
      [] content = " abcd " -> "abcd"
      [] content = " standalone question " -> "standalone question"
      [] OTHER -> content

\* what a call of _reformulate_query does: outcome "ok" with the query
\* returned, or the exception raised; calls, the number of inference calls
\* made; context and rewritten, the context messages and the query put in
\* the prompt; raised, whether the inference call (or reading its answer)
\* raised; content, the answer of the model before strip()
Result(outcome, calls, query, context, rewritten, raised, content) ==
    [outcome |-> outcome, calls |-> calls, query |-> query, context |-> context,
     rewritten |-> rewritten, raised |-> raised, content |-> content]

reformulate_always_infers(messages) ==
    LET user_messages == SelectSeq(messages, LAMBDA msg : msg.role = "user")
        latest_query == user_messages[Len(user_messages)].content
        context_messages == context_of(messages)
    IN  IF user_messages = <<>>
        THEN {Result("BadRequest", 0, "", <<>>, "", FALSE, "")}
        ELSE {Result("ok", 1, latest_query, context_messages, latest_query, TRUE, "")}
             \cup {Result("ok", 1,
                           IF strip_content(content) = "" \/ Len(strip_content(content)) < 5
                           THEN latest_query ELSE strip_content(content),
                           context_messages, latest_query, FALSE, content) :
                      content \in InferenceOutputs}

reformulate_raise_aborts(messages) ==
    LET user_messages == SelectSeq(messages, LAMBDA msg : msg.role = "user")
        latest_query == user_messages[Len(user_messages)].content
        context_messages == context_of(messages)
    IN  IF user_messages = <<>>
        THEN {Result("BadRequest", 0, "", <<>>, "", FALSE, "")}
        ELSE IF Len(messages) <= 1
        THEN {Result("ok", 0, latest_query, <<>>, "", FALSE, "")}
        ELSE {Result("BadRequest", 1, "", context_messages, latest_query, TRUE, "")}
             \cup {Result("ok", 1,
                           IF strip_content(content) = "" \/ Len(strip_content(content)) < 5
                           THEN latest_query ELSE strip_content(content),
                           context_messages, latest_query, FALSE, content) :
                      content \in InferenceOutputs}

reformulate_query(messages) ==
    LET user_messages == SelectSeq(messages, LAMBDA msg : msg.role = "user")
        latest_query == user_messages[Len(user_messages)].content
        context_messages == context_of(messages)
    IN  IF user_messages = <<>>
        THEN {Result("BadRequest", 0, "", <<>>, "", FALSE, "")}
        ELSE IF Len(messages) <= 1
        THEN {Result("ok", 0, latest_query, <<>>, "", FALSE, "")}
        ELSE {Result("ok", 1, latest_query, context_messages, latest_query, TRUE, "")}
             \cup {Result("ok", 1,
                           IF strip_content(content) = "" \/ Len(strip_content(content)) < 5
                           THEN latest_query ELSE strip_content(content),
                           context_messages, latest_query, FALSE, content) :
                      content \in InferenceOutputs}

(***************************************************************************)
(* The request in flight on the RAG orchestrator (idle when there is none) *)
(* and the outcome of the last completed permission call.                  *)
(***************************************************************************)
RagIdle == Request("idle", "none", "none", NotRequested, <<>>, <<>>, <<>>, "none")

Last(op, outcome) == [op |-> op, outcome |-> outcome]

(***************************************************************************)
(* Folder trees built by earlier create_folder calls (api/folders.py):     *)
(* a chain f1 / f2 / f3, and a root with one child beside a second root.   *)
(***************************************************************************)
ChainTree ==
    [f \in FolderIds |->
        CASE f = "f1" -> Folder("a", NoParent, "alice", "/a")
          [] f = "f2" -> Folder("b", "f1", "alice", "/a/b")
          [] f = "f3" -> Folder("c", "f2", "bob", "/a/b/c")]

ForkTree ==
    [f \in FolderIds |->
        CASE f = "f1" -> Folder("a", NoParent, "alice", "/a")
          [] f = "f2" -> Folder("b", "f1", "bob", "/a/b")
          [] f = "f3" -> Folder("c", NoParent, "bob", "/c")]

InitialTrees == {ChainTree, ForkTree}

(***************************************************************************)
(* Actions of the permission API (api/folders.py, grant_folder_permission  *)
(* and revoke_folder_permission call the service and commit).              *)
(***************************************************************************)
Grant(granter_id, user_id, folder_id, flags) ==
    LET r == grant_permission(granter_id, user_id, folder_id, flags)
    IN  /\ Cardinality(r.perms) <= MaxPerms
        /\ perms' = r.perms
        /\ last' = Last("grant", r.outcome)
        /\ UNCHANGED <<folders, docs, embs, rag, jobs>>

Revoke(revoker_id, user_id, folder_id) ==
    LET r == revoke_permission(revoker_id, user_id, folder_id)
    IN  /\ perms' = r.perms
        /\ last' = Last("revoke", r.outcome)
        /\ UNCHANGED <<folders, docs, embs, rag, jobs>>

(***************************************************************************)
(* SpecPerm: the permission store under grant and revoke calls made by     *)
(* any user for the pairs of PermPairs.                                    *)
(***************************************************************************)
InitPerm ==
    /\ folders \in InitialTrees
    /\ perms = {}
    /\ docs = <<>>
    /\ embs = {}
    /\ rag = RagIdle
    /\ jobs = <<>>
    /\ last = Last("init", "ok")

\* The (target user, folder) pairs the modelled callers name: bob on alice's
\* folders, bob on a folder of his own, alice on a folder of bob's.
PermPairs ==
    {<<"bob", "f1">>, <<"bob", "f2">>, <<"bob", "f3">>, <<"alice", "f3">>}

NextPerm ==
    \/ \E granter_id \in Users, pair \in PermPairs, flags \in FlagChoices :
          Grant(granter_id, pair[1], pair[2], flags)
    \/ \E revoker_id \in Users, pair \in PermPairs :
          Revoke(revoker_id, pair[1], pair[2])

SpecPerm == InitPerm /\ [][NextPerm]_vars

(***************************************************************************)
(* Properties of the permission service.                                   *)
(***************************************************************************)
Check(user_id, folder_id, permission_type) ==
    check_folder_permission(user_id, folder_id, permission_type) = "True"

HasParent(folder_id) == folders[folder_id].parent_id # NoParent

\* C4: a superuser passes check_folder_permission for every folder id,
\* existing or not, and every capability, whatever the store holds.
C4_SuperuserSupremacy ==
    \A u \in Users : is_superuser(u) =>
        \A f \in AnyFolderId, cap \in PermissionTypes :
            check_folder_permission(u, f, cap) = "True"

C4_Witness ==
    /\ perms # {}
    /\ \E u \in Users, f \in DOMAIN folders :
          /\ is_superuser(u)
          /\ folders[f].owner_id # u
          /\ PermissionRows(u, f) = {}
          /\ Check(u, f, "admin")

\* C5: the owner of a folder passes check_folder_permission on it for every
\* capability in every state grant and revoke calls reach.
C5_OwnerSupremacy ==
    \A f \in DOMAIN folders, cap \in PermissionTypes :
        check_folder_permission(folders[f].owner_id, f, cap) = "True"

\* the owner holds a row with every flag false on the owned folder
C5_Witness ==
    /\ last = Last("grant", "ok")
    /\ \E p \in perms :
          /\ folders[p.folder_id].owner_id = p.user_id
          /\ ~is_superuser(p.user_id)
          /\ ~(p.can_read \/ p.can_write \/ p.can_delete \/ p.is_admin)
          /\ Check(p.user_id, p.folder_id, "delete")

\* C6: whoever passes the check for a capability on a folder's parent passes
\* it on the folder, whatever row the user has on the folder itself.
C6_InheritanceMonotone ==
    \A u \in Users, cap \in PermissionTypes, f \in DOMAIN folders :
        (HasParent(f) /\ Check(u, folders[f].parent_id, cap)) => Check(u, f, cap)

\* a row on the child with the flag false, the grant coming from the parent
C6_Witness ==
    \E p \in perms :
        /\ ~is_superuser(p.user_id)
        /\ folders[p.folder_id].owner_id # p.user_id
        /\ HasParent(p.folder_id)
        /\ ~p.can_read /\ ~p.is_admin
        /\ folders[folders[p.folder_id].parent_id].owner_id # p.user_id
        /\ Check(p.user_id, folders[p.folder_id].parent_id, "read")
        /\ Check(p.user_id, p.folder_id, "read")

\* superuser, owner of the folder, or admin of it (directly or by inheritance)
MayAdminister(user_id, folder_id) ==
    \/ is_superuser(user_id)
    \/ folders[folder_id].owner_id = user_id
    \/ Check(user_id, folder_id, "admin")

\* C7: on an existing folder a grant by a granter who is no superuser, not
\* the owner and no admin raises PermissionDenied and leaves the rows as they
\* were; a grant by a superuser, the owner or an admin succeeds.
C7_GrantAuthorization ==
    \A granter_id \in Users, user_id \in Users, f \in DOMAIN folders,
       flags \in FlagChoices :
        LET r == grant_permission(granter_id, user_id, f, flags)
        IN  IF MayAdminister(granter_id, f)
            THEN r.outcome = "ok"
            ELSE r.outcome = "PermissionDenied" /\ r.perms = perms

\* a grant was refused while an admin by inheritance could grant
C7_Witness ==
    /\ last = Last("grant", "PermissionDenied")
    /\ \E u \in Users, f \in DOMAIN folders :
          /\ ~is_superuser(u) /\ folders[f].owner_id # u
          /\ PermissionRows(u, f) = {}
          /\ Check(u, f, "admin")
          /\ grant_permission(u, "bob", f, ReadOnly).outcome = "ok"

UniquePairs ==
    \A p \in perms, q \in perms :
        (p.user_id = q.user_id /\ p.folder_id = q.folder_id) => p = q

\* C8: at most one row per (user_id, folder_id); a successful grant leaves
\* exactly one row for its pair, carrying the granted flags and granted_by,
\* and touches no other row; an authorized grant on a pair that has a row
\* succeeds, and repeating a grant changes nothing.
C8_OneRowPerPair ==
    /\ UniquePairs
    /\ \A granter_id \in Users, user_id \in Users, f \in DOMAIN folders,
          flags \in FlagChoices :
          LET r == grant_permission(granter_id, user_id, f, flags)
              row == Permission(user_id, f, flags, granter_id)
              others(P) == {p \in P : ~(p.user_id = user_id /\ p.folder_id = f)}
          IN  /\ (MayAdminister(granter_id, f) /\ PermissionRows(user_id, f) # {})
                    => r.outcome = "ok"
              /\ r.outcome = "ok" =>
                    /\ {p \in r.perms : p.user_id = user_id /\ p.folder_id = f} = {row}
                    /\ others(r.perms) = others(perms)
              /\ (r.outcome = "ok" /\ row \in perms) => r.perms = perms

\* bob, who can grant on f1 only while he holds an admin row there, has
\* overwritten that row of his with one that is no admin row
C8_Witness ==
    /\ last = Last("grant", "ok")
    /\ \E p \in perms :
          /\ p.user_id = "bob" /\ p.granted_by = "bob" /\ p.folder_id = "f1"
          /\ ~p.is_admin
          /\ ~HasParent("f1") /\ folders["f1"].owner_id # "bob"

\* C9: an authorized revoke deletes the row of (user, folder) and returns
\* True when the row exists, returns False and changes nothing when it does
\* not; an unauthorized revoke on an existing folder raises PermissionDenied
\* and changes nothing.  A user without a row on a folder passes the check
\* there only as superuser, as owner or through the parent.
C9_Revoke ==
    /\ \A revoker_id \in Users, user_id \in Users, f \in DOMAIN folders :
          LET r == revoke_permission(revoker_id, user_id, f)
              rows == PermissionRows(user_id, f)
          IN  IF MayAdminister(revoker_id, f)
              THEN IF rows # {}
                   THEN r.outcome = "True" /\ r.perms = perms \ rows
                   ELSE r.outcome = "False" /\ r.perms = perms
              ELSE r.outcome = "PermissionDenied" /\ r.perms = perms
    /\ \A u \in Users, f \in DOMAIN folders, cap \in PermissionTypes :
          (PermissionRows(u, f) = {} /\ Check(u, f, cap)) =>
              \/ is_superuser(u)
              \/ folders[f].owner_id = u
              \/ HasParent(f) /\ Check(u, folders[f].parent_id, cap)

\* a revoke has deleted a row, and a user without a row of his own on a
\* folder still reads it through the parent
C9_Witness ==
    /\ last = Last("revoke", "True")
    /\ \E u \in Users, f \in DOMAIN folders :
          /\ ~is_superuser(u) /\ folders[f].owner_id # u
          /\ PermissionRows(u, f) = {}
          /\ Check(u, f, "read")

OwnedFolders(user_id) == {f \in DOMAIN folders : folders[f].owner_id = user_id}

DirectlyGranted(user_id) ==
    {f \in DOMAIN folders :
        \E p \in perms : /\ p.user_id = user_id /\ p.folder_id = f
                         /\ (p.can_read \/ p.can_write \/ p.can_delete \/ p.is_admin)}

\* C10: for a non-superuser get_user_accessible_folders lists exactly the
\* owned folders and the folders with a row carrying a true flag, each once
\* (so no folder reached only through an ancestor); for a superuser it lists
\* every folder once.
C10_AccessibleFolders ==
    \A u \in Users :
        LET ids == get_user_accessible_folders(u)
        IN  /\ Len(ids) = Cardinality(SeqToSet(ids))
            /\ SeqToSet(ids) = IF is_superuser(u) THEN DOMAIN folders
                               ELSE OwnedFolders(u) \cup DirectlyGranted(u)

\* a user owns a folder and holds a flagged row on it, and reads another
\* folder through its parent only, which the list leaves out
C10_Witness ==
    \E u \in Users :
        /\ ~is_superuser(u)
        /\ OwnedFolders(u) \cap DirectlyGranted(u) # {}
        /\ \E f \in DOMAIN folders :
              /\ Check(u, f, "read")
              /\ f \notin SeqToSet(get_user_accessible_folders(u))

(***************************************************************************)
(* Actions of the RAG orchestrator.                                        *)
(***************************************************************************)
\* POST /rag/query: RAGService.query up to the embedding call
QueryStart(user_id, requested) ==
    /\ rag.pc = "idle"
    /\ rag' = [start("query", user_id, requested, <<>>) EXCEPT !.query = "question"]
    /\ UNCHANGED <<folders, perms, docs, embs, jobs, last>>

\* RAGService.chat up to the reformulation
ChatStart(user_id, requested, messages) ==
    /\ rag.pc = "idle"
    /\ rag' = start("chat", user_id, requested, messages)
    /\ UNCHANGED <<folders, perms, docs, embs, jobs, last>>

\* chat, lines 336-341
Reformulate ==
    /\ rag.pc = "reformulate"
    /\ \E r \in reformulate_query(Trailing(rag.messages, MaxHistory)) :
          rag' = IF r.outcome = "ok"
                 THEN [rag EXCEPT !.pc = "embed", !.query = r.query,
                                  !.reformulate_calls = @ + r.calls]
                 ELSE [rag EXCEPT !.pc = "done", !.outcome = r.outcome,
                                  !.reformulate_calls = @ + r.calls]
    /\ UNCHANGED <<folders, perms, docs, embs, jobs, last>>

\* generate_embeddings([query])[0]: the service answers a vector, or fails
\* and EmbeddingService.generate_embeddings raises BadRequest
Embed ==
    /\ rag.pc = "embed"
    /\ \E ok \in BOOLEAN, v \in Vecs :
          rag' = IF ok
                 THEN [rag EXCEPT !.pc = "search", !.query_embedding = v,
                                  !.embed_calls = @ + 1]
                 ELSE [rag EXCEPT !.pc = "done", !.outcome = "BadRequest",
                                  !.embed_calls = @ + 1]
    /\ UNCHANGED <<folders, perms, docs, embs, jobs, last>>

\* folder_ids=accessible_folders (query line 41, chat line 347): the list the
\* request resolved when it started
search_folders_resolved_again(r) == get_accessible_folders(r.user_id, r.requested)

search_folder_ids(r) == r.accessible_folders

\* search_similar_chunks(query_embedding, accessible_folders, limit, min_similarity),
\* then the "no relevant documents" response when nothing is found
Search ==
    /\ rag.pc = "search"
    /\ \E limit \in 1..MaxLimit, min_similarity \in MinSimilarities :
       \E r \in search_similar_chunks(rag.query_embedding, search_folder_ids(rag),
                                      limit, min_similarity) :
          rag' = IF r.outcome # "ok"
                 THEN [rag EXCEPT !.pc = "done", !.outcome = r.outcome,
                                  !.searched = search_folder_ids(rag),
                                  !.search_calls = @ + 1]
                 ELSE [rag EXCEPT !.pc = IF r.chunks = <<>> THEN "done" ELSE "answer",
                                  !.outcome = IF r.chunks = <<>> THEN "ok" ELSE @,
                                  !.searched = search_folder_ids(rag),
                                  !.similar_chunks = r.chunks,
                                  !.search_calls = @ + 1]
    /\ UNCHANGED <<folders, perms, docs, embs, jobs, last>>

\* _generate_answer / _generate_chat_answer: the completion service answers,
\* or fails and BadRequest is raised
Answer ==
    /\ rag.pc = "answer"
    /\ \E ok \in BOOLEAN :
          rag' = [rag EXCEPT !.pc = "done",
                             !.outcome = IF ok THEN "ok" ELSE "BadRequest"]
    /\ UNCHANGED <<folders, perms, docs, embs, jobs, last>>

\* the response, or the exception, leaves the service
Return ==
    /\ rag.pc = "done"
    /\ rag' = RagIdle
    /\ UNCHANGED <<folders, perms, docs, embs, jobs, last>>

(***************************************************************************)
(* SpecRag: queries and chats by any user over a store of three documents, *)
(* while alice grants and revokes bob's rows on her folders.               *)
(***************************************************************************)
\* alice owns f1 and its child f2, admin owns the root f3; bob owns nothing
AliceTree ==
    [f \in FolderIds |->
        CASE f = "f1" -> Folder("a", NoParent, "alice", "/a")
          [] f = "f2" -> Folder("b", "f1", "alice", "/a/b")
          [] f = "f3" -> Folder("c", NoParent, "admin", "/c")]

RagDocs ==
    [d \in {"d1", "d2", "d3"} |->
        CASE d = "d1" -> Document("f1", "a.txt")
          [] d = "d2" -> Document("f2", "b.txt")
          [] d = "d3" -> Document("f3", "c.txt")]

EmbeddingStores ==
    {{Embedding("d1", 0, 0), Embedding("d1", 1, 2), Embedding("d2", 0, 1),
      Embedding("d3", 0, 0)},
     {Embedding("d1", 0, 3), Embedding("d3", 0, 1), Embedding("d3", 1, 1)}}

RequestChoices ==
    {NotRequested, Requested(<<>>), Requested(<<"f1">>), Requested(<<"f3">>),
     Requested(<<"f2", "f1">>), Requested(<<"f3", "f2">>), Requested(<<MissingFolder>>)}

\* ChatRequest.folder_ids has min_items = 1
ChatRequestChoices == {r \in RequestChoices : r.given /\ r.ids # <<>>}

\* ChatRequest.messages has min_items = 1
MessageChoices ==
    {<<ChatMessage("user", "m1")>>,
     <<ChatMessage("user", "m1"), ChatMessage("assistant", "m2"), ChatMessage("user", "m3")>>,
     <<ChatMessage("assistant", "m1"), ChatMessage("system", "m2")>>}

RagPairs == {<<"bob", "f1">>, <<"bob", "f2">>}

RagFlagChoices == {ReadOnly, WriteDelete}

InitRag ==
    /\ folders = AliceTree
    /\ perms = {}
    /\ docs = RagDocs
    /\ embs \in EmbeddingStores
    /\ rag = RagIdle
    /\ jobs = <<>>
    /\ last = Last("init", "ok")

NextRag ==
    \/ \E user_id \in Users, requested \in RequestChoices : QueryStart(user_id, requested)
    \/ \E user_id \in Users, requested \in ChatRequestChoices, messages \in MessageChoices :
          ChatStart(user_id, requested, messages)
    \/ Reformulate
    \/ Embed
    \/ Search
    \/ Answer
    \/ Return
    \/ \E pair \in RagPairs, flags \in RagFlagChoices : Grant("alice", pair[1], pair[2], flags)
    \/ \E pair \in RagPairs : Revoke("alice", pair[1], pair[2])

SpecRag == InitRag /\ [][NextRag]_vars

(***************************************************************************)
(* Properties of the retrieval engine and the orchestrator.                *)
(***************************************************************************)
FolderIdLists ==
    {r.ids : r \in RequestChoices} \cup {<<"f2">>, <<"f1", "f2", "f3">>}

\* C1: every chunk search_similar_chunks returns is a chunk of a document
\* whose folder_id is in folder_ids, for every query vector, list of folder
\* ids, limit and threshold; so is every chunk a query or chat received.
C1_NoLeak ==
    /\ \A q \in Vecs, folder_ids \in FolderIdLists, limit \in 1..MaxLimit,
          min_similarity \in MinSimilarities :
          \A r \in search_similar_chunks(q, folder_ids, limit, min_similarity) :
             \A i \in 1..Len(r.chunks) :
                /\ r.chunks[i].folder_id \in SeqToSet(folder_ids)
                /\ docs[r.chunks[i].document_id].folder_id \in SeqToSet(folder_ids)
    /\ \A i \in 1..Len(rag.similar_chunks) :
          docs[rag.similar_chunks[i].document_id].folder_id \in SeqToSet(rag.searched)

\* a search returned chunks while a chunk of a folder outside the list
\* scores as high as the best one returned
C1_Witness ==
    /\ rag.pc = "answer"
    /\ rag.similar_chunks # <<>>
    /\ \E e \in embs :
          /\ docs[e.document_id].folder_id \notin SeqToSet(rag.searched)
          /\ \A i \in 1..Len(rag.similar_chunks) :
                CosineSimilarity(e.embedding, rag.query_embedding)
                    >= rag.similar_chunks[i].similarity_score

\* the ids of the folders the enumerator is to return (C10)
AccessibleIds(user_id) ==
    IF is_superuser(user_id) THEN DOMAIN folders
    ELSE OwnedFolders(user_id) \cup DirectlyGranted(user_id)

\* the user has no accessible folder, or names folders none of which is
\* accessible
EmptyAllowList(user_id, requested) ==
    \/ AccessibleIds(user_id) = {}
    \/ /\ requested.given /\ requested.ids # <<>>
       /\ SeqToSet(requested.ids) \cap AccessibleIds(user_id) = {}

NoExternalCall(r) ==
    r.embed_calls = 0 /\ r.reformulate_calls = 0 /\ r.search_calls = 0

\* C2: a query or chat whose allow-list resolves to the empty list ends with
\* PermissionDenied, and no embedding, reformulation or search call is made
\* in it.
C2_EmptyAllowListDenied ==
    /\ (rag.pc # "idle" /\ rag.accessible_folders = <<>>) =>
          /\ rag.pc = "done" /\ rag.outcome = "PermissionDenied"
          /\ NoExternalCall(rag)
    /\ \A user_id \in Users, requested \in RequestChoices :
          EmptyAllowList(user_id, requested) =>
             /\ LET r == start("query", user_id, requested, <<>>)
                IN  r.pc = "done" /\ r.outcome = "PermissionDenied" /\ NoExternalCall(r)
             /\ \A messages \in MessageChoices :
                   LET r == start("chat", user_id, requested, messages)
                   IN  r.pc = "done" /\ r.outcome = "PermissionDenied" /\ NoExternalCall(r)

\* a chat of a user who has accessible folders, none of them requested
C2_Witness ==
    /\ rag.kind = "chat" /\ rag.pc = "done" /\ rag.outcome = "PermissionDenied"
    /\ rag.enumerated # <<>>
    /\ rag.requested.ids # <<>>

\* the requested ids that are in the set ids, in the order requested
Intersect(requested_ids, ids) == SelectSeq(requested_ids, LAMBDA f : f \in ids)

\* C3 as stated: the list handed to the search is the requested ids that are
\* accessible whenever a list is given, the empty list included, and all
\* accessible ids when none is given.
C3_Original ==
    rag.search_calls > 0 =>
        rag.searched = IF rag.requested.given
                       THEN Intersect(rag.requested.ids, SeqToSet(rag.enumerated))
                       ELSE rag.enumerated

\* C3, amended: the list handed to the search is the requested ids that are
\* accessible when a non-empty list is given, and all accessible ids when
\* none or the empty list is given; an id that is not accessible when the
\* list is resolved is never searched.
C3_AllowList ==
    /\ \A user_id \in Users, requested \in RequestChoices :
          LET ids == get_accessible_folders(user_id, requested)
          IN  /\ SeqToSet(ids) \subseteq AccessibleIds(user_id)
              /\ IF requested.given /\ requested.ids # <<>>
                 THEN ids = Intersect(requested.ids, AccessibleIds(user_id))
                 ELSE ids = get_user_accessible_folders(user_id)
    /\ rag.pc \in {"embed", "reformulate", "search", "answer"} =>
          /\ rag.accessible_folders # <<>>
          /\ rag.accessible_folders =
                IF rag.requested.given /\ rag.requested.ids # <<>>
                THEN Intersect(rag.requested.ids, SeqToSet(rag.enumerated))
                ELSE rag.enumerated
    /\ rag.search_calls > 0 =>
          /\ rag.searched = rag.accessible_folders
          /\ SeqToSet(rag.searched) \subseteq SeqToSet(rag.enumerated)

\* a search ran on a proper, non-empty part of the requested ids: the
\* requested id that was not accessible was dropped
C3_Witness ==
    /\ rag.search_calls > 0
    /\ rag.requested.given /\ rag.requested.ids # <<>>
    /\ rag.searched # <<>> /\ rag.searched # rag.requested.ids
    /\ ~is_superuser(rag.user_id)

(***************************************************************************)
(* The folder API (server/app/api/folders.py).                            *)
(***************************************************************************)
\* PermissionService.check_folder_access: "ok", or the exception raised
check_folder_access(user_id, folder_id, permission_type) ==
    LET c == check_folder_permission(user_id, folder_id, permission_type)
    IN  IF c = "NotFound" THEN "NotFound"
        ELSE IF c = "True" THEN "ok"
        ELSE "PermissionDenied"

FolderNames == {"a", "b"}

\* FolderUpdate.name left out (None)
NoName == ""

build_folder_path(parent_id, folder_name) ==
    IF parent_id = NoParent THEN "/" \o folder_name
    ELSE IF parent_id \in DOMAIN folders
         THEN folders[parent_id].path \o "/" \o folder_name
         ELSE "/" \o folder_name

\* uuid4: an id no folder row carries
NewFolderId ==
    LET free == SelectSeq(FolderOrder, LAMBDA f : f \notin DOMAIN folders)
    IN  IF free = <<>> THEN MissingFolder ELSE free[1]

(***************************************************************************)
(* The store's constraints on the folders table: _folder_name_parent_uc on *)
(* (name, parent_id), under which rows with a NULL parent_id never         *)
(* collide, and the foreign key parent_id -> folders.                      *)
(***************************************************************************)
FolderInsertAllowed(row) ==
    /\ row.parent_id # NoParent =>
          /\ row.parent_id \in DOMAIN folders
          /\ \A f \in DOMAIN folders :
                ~(folders[f].name = row.name /\ folders[f].parent_id = row.parent_id)

\* create_folder: [outcome, folders]
create_folder(current_user, name, parent_id) ==
    LET access == IF parent_id # NoParent
                  THEN check_folder_access(current_user, parent_id, "write")
                  ELSE "ok"
        existing ==
            IF parent_id # NoParent
            THEN {f \in DOMAIN folders :
                     folders[f].name = name /\ folders[f].parent_id = parent_id}
            ELSE {f \in DOMAIN folders :
                     /\ folders[f].name = name /\ folders[f].parent_id = NoParent
                     /\ folders[f].owner_id = current_user}
        new_folder == Folder(name, parent_id, current_user,
                             build_folder_path(parent_id, name))
        id == NewFolderId
    IN  IF access # "ok" THEN [outcome |-> access, folders |-> folders]
        ELSE IF existing # {} THEN [outcome |-> "Conflict", folders |-> folders]
        ELSE IF ~FolderInsertAllowed(new_folder)
             THEN [outcome |-> "IntegrityError", folders |-> folders]
        ELSE [outcome |-> "ok",
              folders |-> [f \in DOMAIN folders \cup {id} |->
                              IF f = id THEN new_folder ELSE folders[f]]]

\* update_folder: [outcome, folders]
update_folder(current_user, folder_id, name) ==
    LET access == check_folder_access(current_user, folder_id, "write")
        existing == {f \in DOMAIN folders :
                        /\ folders[f].name = name
                        /\ folders[f].parent_id = folders[folder_id].parent_id
                        /\ f # folder_id}
    IN  IF access # "ok" THEN [outcome |-> access, folders |-> folders]
        ELSE IF folder_id \notin DOMAIN folders
             THEN [outcome |-> "NotFound", folders |-> folders]
        ELSE IF name = NoName THEN [outcome |-> "ok", folders |-> folders]
        ELSE IF existing # {} THEN [outcome |-> "Conflict", folders |-> folders]
        ELSE [outcome |-> "ok",
              folders |-> [folders EXCEPT
                              ![folder_id].name = name,
                              ![folder_id].path =
                                  build_folder_path(folders[folder_id].parent_id, name)]]

(***************************************************************************)
(* delete_folder: [outcome, folders, perms, docs, embs].  db.delete(folder)*)
(* goes through the unit of work of the ORM: the relationships documents   *)
(* and permissions (cascade "all, delete-orphan") delete their rows, and   *)
(* Document.embeddings likewise; the backref "children" carries no delete  *)
(* cascade and no passive_deletes, so the child folders are loaded and     *)
(* their parent_id is set to NULL before the row is deleted.               *)
(***************************************************************************)
delete_folder(current_user, folder_id) ==
    LET access == check_folder_access(current_user, folder_id, "delete")
        same == [outcome |-> "ok", folders |-> folders, perms |-> perms,
                 docs |-> docs, embs |-> embs]
        kept == {d \in DOMAIN docs : docs[d].folder_id # folder_id}
    IN  IF access # "ok" THEN [same EXCEPT !.outcome = access]
        ELSE IF folder_id \notin DOMAIN folders THEN [same EXCEPT !.outcome = "NotFound"]
        ELSE [outcome |-> "ok",
              folders |-> [f \in DOMAIN folders \ {folder_id} |->
                              IF folders[f].parent_id = folder_id
                              THEN [folders[f] EXCEPT !.parent_id = NoParent]
                              ELSE folders[f]],
              perms |-> {p \in perms : p.folder_id # folder_id},
              docs |-> [d \in kept |-> docs[d]],
              embs |-> {e \in embs : e.document_id \in kept}]

(***************************************************************************)
(* Actions of the folder API.                                              *)
(***************************************************************************)
CreateFolder(current_user, name, parent_id) ==
    LET r == create_folder(current_user, name, parent_id)
    IN  /\ NewFolderId # MissingFolder
        /\ folders' = r.folders
        /\ last' = Last("create_folder", r.outcome)
        /\ UNCHANGED <<perms, docs, embs, rag, jobs>>

UpdateFolder(current_user, folder_id, name) ==
    LET r == update_folder(current_user, folder_id, name)
    IN  /\ folders' = r.folders
        /\ last' = Last("update_folder", r.outcome)
        /\ UNCHANGED <<perms, docs, embs, rag, jobs>>

DeleteFolder(current_user, folder_id) ==
    LET r == delete_folder(current_user, folder_id)
    IN  /\ folders' = r.folders
        /\ perms' = r.perms
        /\ docs' = r.docs
        /\ embs' = r.embs
        /\ last' = Last("delete_folder", r.outcome)
        /\ UNCHANGED <<rag, jobs>>

(***************************************************************************)
(* SpecFolders: from the empty store, every user creates and renames       *)
(* folders, while alice grants bob write and delete on the second folder   *)
(* and revokes it.                                                         *)
(***************************************************************************)
InitFolders ==
    /\ folders = <<>>
    /\ perms = {}
    /\ docs = <<>>
    /\ embs = {}
    /\ rag = RagIdle
    /\ jobs = <<>>
    /\ last = Last("init", "ok")

NextFolders ==
    \/ \E current_user \in Users, name \in FolderNames, parent_id \in FolderIds \cup {NoParent} :
          CreateFolder(current_user, name, parent_id)
    \/ \E current_user \in Users, folder_id \in FolderIds, name \in FolderNames \cup {NoName} :
          UpdateFolder(current_user, folder_id, name)
    \/ Grant("alice", "bob", "f2", WriteDelete)
    \/ Revoke("alice", "bob", "f2")

SpecFolders == InitFolders /\ [][NextFolders]_vars

\* C11: for a user who is no superuser and a folder id that no folder
\* carries, check_folder_permission raises NotFound, and so do
\* check_folder_access, grant_permission and revoke_permission, which leave
\* the permission rows as they are.
C11_NotFoundPropagates ==
    \A user_id \in Users, f \in AnyFolderId \ DOMAIN folders :
        ~is_superuser(user_id) =>
            /\ \A permission_type \in PermissionTypes :
                  /\ check_folder_permission(user_id, f, permission_type) = "NotFound"
                  /\ check_folder_access(user_id, f, permission_type) = "NotFound"
            /\ \A target \in Users :
                  /\ \A flags \in FlagChoices :
                        grant_permission(user_id, target, f, flags)
                            = [outcome |-> "NotFound", perms |-> perms]
                  /\ revoke_permission(user_id, target, f)
                        = [outcome |-> "NotFound", perms |-> perms]

\* alice's grant on a folder id that is not there, while other folders
\* are, has raised NotFound
C11_Witness ==
    /\ last = Last("grant", "NotFound")
    /\ folders # <<>>
    /\ "f2" \notin DOMAIN folders

\* C15 as stated: no two folders share the same (name, parent_id), root
\* folders included.
C15_UniqueNameParent ==
    \A f \in DOMAIN folders, g \in DOMAIN folders :
        (folders[f].name = folders[g].name /\ folders[f].parent_id = folders[g].parent_id)
            => f = g

\* the rows of the store that a search for folder_ids may return: chunks of
\* documents of those folders scoring at least min_similarity
Eligible(query_embedding, folder_ids, min_similarity) ==
    {c \in {Chunk(e, query_embedding) : e \in embs} :
        /\ c.folder_id \in SeqToSet(folder_ids)
        /\ c.similarity_score >= min_similarity}

Ranked(chunks, eligible, limit, min_similarity) ==
    /\ Len(chunks) <= limit
    /\ \A i \in 1..Len(chunks) : chunks[i].similarity_score >= min_similarity
    /\ \A i \in 1..Len(chunks), j \in 1..Len(chunks) :
          i < j => chunks[i].similarity_score >= chunks[j].similarity_score
    /\ SeqToSet(chunks) \subseteq eligible
    /\ \A c \in eligible \ SeqToSet(chunks), i \in 1..Len(chunks) :
          c.similarity_score <= chunks[i].similarity_score

(***************************************************************************)
(* SpecSearch: search_similar_chunks called with every query vector, list  *)
(* of folder ids, limit and threshold, over every store of at most MaxEmbs *)
(* of the rows of EmbeddingPool.  last is the call and what it returned.   *)
(***************************************************************************)
EmbeddingPool ==
    {Embedding("d1", 0, 0), Embedding("d1", 1, 2), Embedding("d2", 0, 1),
     Embedding("d2", 1, 1), Embedding("d3", 0, 0)}

\* Bound: the number of Embedding rows in the store.
MaxEmbs == 4

SearchCall(query_embedding, folder_ids, limit, min_similarity) ==
    /\ \E r \in search_similar_chunks(query_embedding, folder_ids, limit, min_similarity) :
          last' = [op |-> "search", outcome |-> r.outcome,
                   query_embedding |-> query_embedding, folder_ids |-> folder_ids,
                   limit |-> limit, min_similarity |-> min_similarity,
                   chunks |-> r.chunks]
    /\ UNCHANGED <<folders, perms, docs, embs, rag, jobs>>

InitSearch ==
    /\ folders = AliceTree
    /\ perms = {}
    /\ docs = RagDocs
    /\ embs \in {s \in SUBSET EmbeddingPool : Cardinality(s) <= MaxEmbs}
    /\ rag = RagIdle
    /\ jobs = <<>>
    /\ last = Last("init", "ok")

NextSearch ==
    \E q \in Vecs, folder_ids \in FolderIdLists, limit \in 1..MaxLimit,
       min_similarity \in MinSimilarities :
        SearchCall(q, folder_ids, limit, min_similarity)

SpecSearch == InitSearch /\ [][NextSearch]_vars

\* C12: search_similar_chunks returns at most limit chunks, each scoring at
\* least min_similarity, in order of non-increasing score, and no eligible
\* chunk it leaves out scores higher than one it returns.
C12_Ranking ==
    (last.op = "search" /\ last.outcome = "ok") =>
        Ranked(last.chunks,
               Eligible(last.query_embedding, last.folder_ids, last.min_similarity),
               last.limit, last.min_similarity)

\* a search returned limit chunks of different scores and left out an
\* eligible one, and another chunk of the searched folders fell below the
\* threshold
C12_Witness ==
    /\ last.op = "search" /\ last.outcome = "ok"
    /\ Len(last.chunks) = last.limit
    /\ \E i \in 1..Len(last.chunks) :
          last.chunks[i].similarity_score > last.chunks[Len(last.chunks)].similarity_score
    /\ Eligible(last.query_embedding, last.folder_ids, last.min_similarity)
          \ SeqToSet(last.chunks) # {}
    /\ Eligible(last.query_embedding, last.folder_ids, -10)
          \ Eligible(last.query_embedding, last.folder_ids, last.min_similarity) # {}

(***************************************************************************)
(* Uploads and embedding generation (api/documents.py, DocumentService,    *)
(* EmbeddingService.process_document_embeddings).  The server processes of *)
(* Procs share the store; jobs[p] is the request process p is serving,     *)
(* between two of its commits:                                             *)
(*   "insert"    upload_document has found no document of that name and    *)
(*               is to insert the row, store the file and commit           *)
(*   "delete"    process_document_embeddings is to delete the old rows     *)
(*   "generate"  it is to chunk, embed and insert the new rows             *)
(***************************************************************************)
Procs == {"p1", "p2"}

DocOrder == <<"d1", "d2">>

Filenames == {"a.txt", "b.txt"}

\* uuid4: an id no document row carries ("dx" when the model has run out)
NewDocumentId ==
    LET free == SelectSeq(DocOrder, LAMBDA d : d \notin DOMAIN docs)
    IN  IF free = <<>> THEN "dx" ELSE free[1]

Job(op, pc, user_id, folder_id, filename, document_id, existing) ==
    [op |-> op, pc |-> pc, user_id |-> user_id, folder_id |-> folder_id,
     filename |-> filename, document_id |-> document_id, existing |-> existing]

\* Bound: the number of chunks of a document text.
MaxChunks == 2

\* what chunking and embedding a document yields: the vectors of its chunks
\* in document order (here alternating 1, 0, ...), or <<>> when the text
\* cannot be extracted, is blank or the embedding service fails
ChunkLists == {<<>>} \cup {[i \in 1..n |-> i % 2] : n \in 1..MaxChunks}

\* upload_document up to the lookup of an existing document (api 31,
\* service 55-82): "ok", or the exception raised
upload_check(uploaded_by, folder_id, filename) ==
    LET access == check_folder_access(uploaded_by, folder_id, "write")
        existing_doc == {d \in DOMAIN docs : /\ docs[d].folder_id = folder_id
                                             /\ docs[d].filename = filename}
    IN  IF access # "ok" THEN access
        ELSE IF folder_id \notin DOMAIN folders THEN "NotFound"
        ELSE IF existing_doc # {} THEN "BadRequest"
        ELSE "ok"

\* service 85-123: add, flush, store the file, commit.  The documents table
\* has the foreign key folder_id -> folders and no unique constraint.
upload_commit(folder_id, filename, stored) ==
    LET id == NewDocumentId
    IN  IF folder_id \notin DOMAIN folders
        THEN [outcome |-> "IntegrityError", docs |-> docs, document_id |-> "none"]
        ELSE IF ~stored
        THEN [outcome |-> "BadRequest", docs |-> docs, document_id |-> "none"]
        ELSE [outcome |-> "ok",
              docs |-> [d \in DOMAIN docs \cup {id} |->
                           IF d = id THEN Document(folder_id, filename) ELSE docs[d]],
              document_id |-> id]

EmbeddingRows(document_id) == {e \in embs : e.document_id = document_id}

\* process_document_embeddings 36-51: [outcome, embs, existing]
process_delete_first(document_id) ==
    IF document_id \notin DOMAIN docs
    THEN [outcome |-> "NotFound", embs |-> embs, existing |-> FALSE]
    ELSE [outcome |-> "ok",
          embs |-> {e \in embs : ~(e.document_id = document_id /\ e.chunk_index = 0)},
          existing |-> EmbeddingRows(document_id) # {}]

process_delete(document_id) ==
    IF document_id \notin DOMAIN docs
    THEN [outcome |-> "NotFound", embs |-> embs, existing |-> FALSE]
    ELSE [outcome |-> "ok",
          embs |-> embs \ EmbeddingRows(document_id),
          existing |-> EmbeddingRows(document_id) # {}]

\* process_document_embeddings 53-99: [outcome, embs].  The embeddings table
\* has _document_chunk_uc on (document_id, chunk_index) and the foreign key
\* document_id -> documents; a failed commit is rolled back and BadRequest
\* is raised.
process_insert(document_id, chunks) ==
    LET rows == {Embedding(document_id, i - 1, chunks[i]) : i \in 1..Len(chunks)}
        allowed == /\ document_id \in DOMAIN docs
                   /\ \A r \in rows, e \in EmbeddingRows(document_id) :
                         e.chunk_index # r.chunk_index
    IN  IF chunks = <<>> \/ ~allowed
        THEN [outcome |-> "BadRequest", embs |-> embs]
        ELSE [outcome |-> "ok", embs |-> embs \cup rows]

\* the call a process has completed: outcome is what the endpoint answers,
\* embedded what process_document_embeddings returned or raised in it
Completed(op, outcome, embedded, document_id, existing, chunks) ==
    [op |-> op, outcome |-> outcome, embedded |-> embedded,
     document_id |-> document_id, existing |-> existing, chunks |-> chunks]

WithJob(p, job) == [q \in DOMAIN jobs \cup {p} |-> IF q = p THEN job ELSE jobs[q]]

WithoutJob(p) == [q \in DOMAIN jobs \ {p} |-> jobs[q]]

\* POST /folders/{folder_id}/documents, up to the lookup
UploadStart(p, current_user, folder_id, filename) ==
    LET c == upload_check(current_user, folder_id, filename)
        inserting == {q \in DOMAIN jobs : jobs[q].pc = "insert"}
    IN  /\ p \notin DOMAIN jobs
        /\ Cardinality(SeqToSet(DocOrder) \ DOMAIN docs) > Cardinality(inserting)
        /\ IF c = "ok"
           THEN /\ jobs' = WithJob(p, Job("upload", "insert", current_user, folder_id,
                                          filename, "none", FALSE))
                /\ last' = last
           ELSE /\ jobs' = jobs
                /\ last' = Completed("upload", c, "none", "none", FALSE, <<>>)
        /\ UNCHANGED <<folders, perms, docs, embs, rag>>

\* the insert, the file store and the commit of upload_document
UploadCommit(p) ==
    /\ p \in DOMAIN jobs
    /\ jobs[p].pc = "insert"
    /\ \E stored \in BOOLEAN :
          LET r == upload_commit(jobs[p].folder_id, jobs[p].filename, stored)
          IN  /\ docs' = r.docs
              /\ IF r.outcome = "ok"
                 THEN /\ jobs' = WithJob(p, [jobs[p] EXCEPT !.pc = "delete",
                                                            !.document_id = r.document_id])
                      /\ last' = last
                 ELSE /\ jobs' = WithoutJob(p)
                      /\ last' = Completed("upload", r.outcome, "none", "none", FALSE, <<>>)
    /\ UNCHANGED <<folders, perms, embs, rag>>

\* POST /documents/{document_id}/reprocess-embeddings, up to the service call
Reprocess(p, current_user, document_id) ==
    LET c == IF document_id \notin DOMAIN docs THEN "NotFound"
             ELSE check_folder_access(current_user, docs[document_id].folder_id, "write")
    IN  /\ p \notin DOMAIN jobs
        /\ IF c = "ok"
           THEN /\ jobs' = WithJob(p, Job("process", "delete", current_user,
                                          docs[document_id].folder_id,
                                          docs[document_id].filename, document_id, FALSE))
                /\ last' = last
           ELSE /\ jobs' = jobs
                /\ last' = Completed("process", c, "none", document_id, FALSE, <<>>)
        /\ UNCHANGED <<folders, perms, docs, embs, rag>>

\* process_document_embeddings 36-51; an upload answers 201 whatever the
\* embedding step raises (api/documents.py 41-45)
ProcessDelete(p) ==
    /\ p \in DOMAIN jobs
    /\ jobs[p].pc = "delete"
    /\ LET job == jobs[p]
           r == process_delete(job.document_id)
       IN  /\ embs' = r.embs
           /\ IF r.outcome = "ok"
              THEN /\ jobs' = WithJob(p, [job EXCEPT !.pc = "generate",
                                                     !.existing = r.existing])
                   /\ last' = last
              ELSE /\ jobs' = WithoutJob(p)
                   /\ last' = Completed(job.op,
                                        IF job.op = "upload" THEN "ok" ELSE "BadRequest",
                                        r.outcome, job.document_id, FALSE, <<>>)
    /\ UNCHANGED <<folders, perms, docs, rag>>

\* process_document_embeddings 53-99
ProcessInsert(p) ==
    /\ p \in DOMAIN jobs
    /\ jobs[p].pc = "generate"
    /\ \E chunks \in ChunkLists :
          LET job == jobs[p]
              r == process_insert(job.document_id, chunks)
          IN  /\ embs' = r.embs
              /\ jobs' = WithoutJob(p)
              /\ last' = Completed(job.op,
                                   IF job.op = "upload" THEN "ok" ELSE r.outcome,
                                   r.outcome, job.document_id, job.existing, chunks)
    /\ UNCHANGED <<folders, perms, docs, rag>>

(***************************************************************************)
(* SpecDocs: two server processes take uploads by alice and bob into       *)
(* alice's folders f1 and f2, and alice's reprocess requests.              *)
(***************************************************************************)
InitDocs ==
    /\ folders = AliceTree
    /\ perms = {}
    /\ docs = <<>>
    /\ embs = {}
    /\ rag = RagIdle
    /\ jobs = <<>>
    /\ last = Last("init", "ok")

DocCallers == {"alice", "bob"}

DocFolders == {"f1", "f2"}

NextDocs ==
    \/ \E p \in Procs, current_user \in DocCallers, folder_id \in DocFolders,
          filename \in Filenames :
          UploadStart(p, current_user, folder_id, filename)
    \/ \E p \in Procs : UploadCommit(p)
    \/ \E p \in Procs, document_id \in SeqToSet(DocOrder) : Reprocess(p, "alice", document_id)
    \/ \E p \in Procs : ProcessDelete(p)
    \/ \E p \in Procs : ProcessInsert(p)

SpecDocs == InitDocs /\ [][NextDocs]_vars

\* process p returns from process_document_embeddings without an exception
\* in this step
ProcessSucceeds(p) ==
    /\ p \in DOMAIN jobs
    /\ jobs[p].pc = "generate"
    /\ p \notin DOMAIN jobs'
    /\ last'.embedded = "ok"

\* C13: in the step in which process_document_embeddings(doc) returns, on a
\* first generation or a regeneration, the Embedding rows of doc are exactly
\* the new chunks: as many rows as chunks, chunk_index 0..n-1 once each
\* with the i-th chunk at index i-1, and no other row of doc.
C13_Regeneration ==
    [][\A p \in Procs :
          ProcessSucceeds(p) =>
              LET document_id == last'.document_id
                  chunks == last'.chunks
                  rows == {e \in embs' : e.document_id = document_id}
              IN  /\ Len(chunks) >= 1
                  /\ Cardinality(rows) = Len(chunks)
                  /\ {e.chunk_index : e \in rows} = 0..(Len(chunks) - 1)
                  /\ rows = {Embedding(document_id, i - 1, chunks[i]) :
                                i \in 1..Len(chunks)}]_vars

\* a reprocess request found rows of an earlier generation and has left
\* the rows of a one-chunk text
C13_Witness ==
    /\ last.op = "process"
    /\ last.embedded = "ok"
    /\ last.existing
    /\ Len(last.chunks) = 1
    /\ EmbeddingRows(last.document_id) = {Embedding(last.document_id, 0, last.chunks[1])}

\* C14 as stated: no two Document rows share the same (folder_id, filename),
\* also when two uploads of one filename into one folder interleave.
C14_UniqueFilename ==
    \A d \in DOMAIN docs, e \in DOMAIN docs :
        (docs[d].folder_id = docs[e].folder_id /\ docs[d].filename = docs[e].filename)
            => d = e

(***************************************************************************)
(* SpecDelete: delete_folder (api/folders.py) on the chain f1 / f2 / f3    *)
(* with a document and its embedding in f2 and in f3 and permission rows   *)
(* on the folders, beside grants and revocations.                          *)
(***************************************************************************)
SeededDocs ==
    [d \in SeqToSet(DocOrder) |->
        IF d = "d1" THEN Document("f2", "a.txt") ELSE Document("f3", "a.txt")]

SeededEmbs == {Embedding("d1", 0, 0), Embedding("d1", 1, 2), Embedding("d2", 0, 1)}

SeededPerms ==
    {Permission("bob", "f1", WriteDelete, "alice"),
     Permission("alice", "f3", ReadOnly, "bob")}

InitDelete ==
    /\ folders = ChainTree
    /\ perms \in SUBSET SeededPerms
    /\ docs = SeededDocs
    /\ embs = SeededEmbs
    /\ rag = RagIdle
    /\ jobs = <<>>
    /\ last = Last("init", "ok")

NextDelete ==
    \/ \E current_user \in Users, folder_id \in FolderIds :
          DeleteFolder(current_user, folder_id)
    \/ \E granter_id \in Users, pair \in PermPairs, flags \in RagFlagChoices :
          Grant(granter_id, pair[1], pair[2], flags)
    \/ \E revoker_id \in Users, pair \in PermPairs :
          Revoke(revoker_id, pair[1], pair[2])

SpecDelete == InitDelete /\ [][NextDelete]_vars

\* The folders below folder_id in a folder table: its children, their
\* children, and so on.
RECURSIVE DescendantsIn(_, _, _)
DescendantsIn(table, folder_id, fuel) ==
    IF fuel = 0 THEN {}
    ELSE LET children == {f \in DOMAIN table : table[f].parent_id = folder_id}
         IN  children \cup
             UNION {DescendantsIn(table, c, fuel - 1) : c \in children}

ReferentialIntegrity ==
    /\ \A f \in DOMAIN folders :
          folders[f].parent_id # NoParent => folders[f].parent_id \in DOMAIN folders
    /\ \A d \in DOMAIN docs : docs[d].folder_id \in DOMAIN folders
    /\ \A e \in embs : e.document_id \in DOMAIN docs

\* C16 as stated: once delete_folder(F) has succeeded, F, every descendant
\* of F, every document in F or in a descendant with its embeddings, and
\* every permission row on F or on a descendant are gone; and every
\* folder's parent, document's folder and embedding's document exists.
C16_DeleteCascades ==
    [][\A F \in DOMAIN folders :
          (last'.op = "delete_folder" /\ last'.outcome = "ok" /\ F \notin DOMAIN folders')
              => LET gone == {F} \cup DescendantsIn(folders, F, Cardinality(FolderIds))
                 IN  /\ gone \cap DOMAIN folders' = {}
                     /\ \A d \in DOMAIN docs' : docs'[d].folder_id \notin gone
                     /\ \A d \in DOMAIN docs :
                           docs[d].folder_id \in gone =>
                               \A e \in embs' : e.document_id # d
                     /\ \A p \in perms' : p.folder_id \notin gone
                     /\ ReferentialIntegrity']_vars

\* C16, the part the code keeps: in every state each folder's parent, each
\* document's folder and each embedding's document exists.
C16_ReferentialIntegrity == ReferentialIntegrity

(***************************************************************************)
(* SpecReform: RAGService._reformulate_query (rag_service.py 243-312) as a *)
(* function of the message history, called with the history as it is or    *)
(* with the trailing window that chat passes in (lines 336-341).           *)
(***************************************************************************)
Roles == {"user", "assistant", "system"}

MaxMessages == 6

\* the histories of up to MaxMessages messages, the i-th with content "m<i>"
Histories ==
    UNION {{[i \in 1..n |-> ChatMessage(roles[i], "m" \o ToString(i))] :
               roles \in [1..n -> Roles]} : n \in 0..MaxMessages}

Reformulated(r, messages, history) ==
    [op |-> "reformulate", outcome |-> r.outcome, calls |-> r.calls, query |-> r.query,
     context |-> r.context, rewritten |-> r.rewritten,
     raised |-> r.raised, content |-> r.content,
     messages |-> messages, history |-> history]

ReformulateCall(windowed) ==
    LET messages == IF windowed THEN Trailing(rag.messages, MaxHistory) ELSE rag.messages
    IN  /\ rag.pc = "reformulate"
        /\ \E r \in reformulate_query(messages) :
              last' = Reformulated(r, messages, rag.messages)
        /\ rag' = RagIdle
        /\ UNCHANGED <<folders, perms, docs, embs, jobs>>

InitReform ==
    /\ folders = AliceTree
    /\ perms = {}
    /\ docs = <<>>
    /\ embs = {}
    /\ \E messages \in Histories :
          rag = Request("reformulate", "chat", "alice", NotRequested, messages,
                        <<>>, <<>>, "pending")
    /\ jobs = <<>>
    /\ last = Last("init", "ok")

NextReform == \E windowed \in BOOLEAN : ReformulateCall(windowed)

SpecReform == InitReform /\ [][NextReform]_vars

\* the user messages of a history, in order
UserMessages(messages) == SelectSeq(messages, LAMBDA msg : msg.role = "user")

\* C17: on a history of at most one message _reformulate_query makes no
\* inference call, and when that history holds a user message it returns the
\* content of the latest user message unchanged.
C17_ShortHistory ==
    (last.op = "reformulate" /\ Len(last.messages) <= 1) =>
        /\ last.calls = 0
        /\ UserMessages(last.messages) # <<>> =>
              /\ last.outcome = "ok"
              /\ last.query =
                    UserMessages(last.messages)[Len(UserMessages(last.messages))].content

\* the one-message history of a user has been answered with that message
C17_Witness ==
    /\ last.op = "reformulate"
    /\ last.messages = <<ChatMessage("user", "m1")>>
    /\ last.outcome = "ok"
    /\ last.query = "m1"
    /\ last.calls = 0

\* C18 as stated: _reformulate_query never raises; for every non-empty
\* history, of any mix of roles, also the trailing window chat passes in,
\* and every outcome of the inference call it returns a query string.
C18_NeverRaises ==
    (last.op = "reformulate" /\ last.messages # <<>>) => last.outcome = "ok"

(***************************************************************************)
(* utils/text_chunking.py.  A text is a sequence of characters; the        *)
(* characters are a letter, a sentence terminator and a whitespace         *)
(* character, which is all that strip, find(' ') and the split pattern     *)
(* (?<=[.!?])\s+ tell apart.                                               *)
(***************************************************************************)
Chars == {"a", ".", " "}

IsSpace(c) == c = " "

IsTerminator(c) == c = "."

Min(a, b) == IF a <= b THEN a ELSE b

\* text[start:end] for 0 <= start, 0 <= end
Slice(text, start_, end) == SubSeq(text, start_ + 1, Min(end, Len(text)))

RECURSIVE lstrip(_)
lstrip(text) ==
    IF text # <<>> /\ IsSpace(Head(text)) THEN lstrip(Tail(text)) ELSE text

RECURSIVE rstrip(_)
rstrip(text) ==
    IF text # <<>> /\ IsSpace(text[Len(text)])
    THEN rstrip(SubSeq(text, 1, Len(text) - 1))
    ELSE text

strip(text) == rstrip(lstrip(text))

\* text.find(' '): the 0-based index of the first space, -1 when there is none
find_space(text) ==
    IF \E i \in 1..Len(text) : IsSpace(text[i])
    THEN (CHOOSE i \in 1..Len(text) :
              IsSpace(text[i]) /\ \A j \in 1..(i - 1) : ~IsSpace(text[j])) - 1
    ELSE -1

\* re.split(r'(?<=[.!?])\s+', text): cut at every run of whitespace that
\* follows a terminator; i is the 1-based position read next and current the
\* piece collected so far
RECURSIVE split_from(_, _, _)
split_from(text, i, current) ==
    IF i > Len(text) THEN <<current>>
    ELSE IF IsSpace(text[i]) /\ i > 1 /\ IsTerminator(text[i - 1])
    THEN LET rest == {j \in i..Len(text) : ~IsSpace(text[j])}
             next == IF rest = {} THEN Len(text) + 1
                     ELSE CHOOSE j \in rest : \A k \in rest : j <= k
         IN  <<current>> \o split_from(text, next, <<>>)
    ELSE split_from(text, i + 1, Append(current, text[i]))

split_sentences(text) == split_from(text, 1, <<>>)

\* the while loop of chunk_text_simple, entered with start < len(text)
RECURSIVE simple_loop(_, _, _, _, _)
simple_loop(text, chunk_size, overlap, start_, chunks) ==
    LET end == start_ + chunk_size
        chunk == Slice(text, start_, end)
        appended == IF strip(chunk) # <<>> THEN Append(chunks, strip(chunk)) ELSE chunks
        next == end - overlap
    IN  IF next >= Len(text) THEN appended
        ELSE simple_loop(text, chunk_size, overlap, next, appended)

chunk_text_simple(text, chunk_size, overlap) ==
    IF 0 < Len(text) THEN simple_loop(text, chunk_size, overlap, 0, <<>>) ELSE <<>>

get_overlap_text(text, overlap_size) ==
    IF Len(text) <= overlap_size THEN text
    ELSE LET \* text[-overlap_size:], which is the whole text for overlap_size 0
             overlap_text == IF overlap_size = 0 THEN text
                             ELSE SubSeq(text, Len(text) - overlap_size + 1, Len(text))
             space_index == find_space(overlap_text)
         IN  IF space_index > 0
             THEN SubSeq(overlap_text, space_index + 2, Len(overlap_text))
             ELSE overlap_text

\* one pass of the for loop of chunk_text_by_sentences over sentences[i..]
RECURSIVE sentence_loop(_, _, _, _, _, _, _)
sentence_loop(sentences, i, chunk_size, overlap, chunks, current_chunk, current_size) ==
    IF i > Len(sentences)
    THEN IF strip(current_chunk) # <<>> THEN Append(chunks, strip(current_chunk))
         ELSE chunks
    ELSE LET sentence == strip(sentences[i])
             sentence_size == Len(sentence)
         IN  IF sentence = <<>>
             THEN sentence_loop(sentences, i + 1, chunk_size, overlap, chunks,
                                current_chunk, current_size)
             ELSE IF sentence_size > chunk_size
             THEN sentence_loop(sentences, i + 1, chunk_size, overlap,
                                (IF current_chunk # <<>>
                                 THEN Append(chunks, strip(current_chunk)) ELSE chunks)
                                    \o chunk_text_simple(sentence, chunk_size, overlap),
                                IF current_chunk # <<>> THEN <<>> ELSE current_chunk,
                                IF current_chunk # <<>> THEN 0 ELSE current_size)
             ELSE IF current_size + sentence_size > chunk_size /\ current_chunk # <<>>
             THEN LET overlap_text == get_overlap_text(current_chunk, overlap)
                      started == IF overlap_text # <<>>
                                 THEN overlap_text \o <<" ">> \o sentence
                                 ELSE sentence
                  IN  sentence_loop(sentences, i + 1, chunk_size, overlap,
                                    Append(chunks, strip(current_chunk)),
                                    started, Len(started))
             ELSE LET extended == IF current_chunk # <<>>
                                  THEN current_chunk \o <<" ">> \o sentence
                                  ELSE sentence
                  IN  sentence_loop(sentences, i + 1, chunk_size, overlap, chunks,
                                    extended, Len(extended))

chunk_text_by_sentences(text, chunk_size, overlap) ==
    sentence_loop(split_sentences(text), 1, chunk_size, overlap, <<>>, <<>>, 0)

chunk_text(text, chunk_size, overlap, preserve_sentences) ==
    IF strip(text) = <<>> THEN <<>>
    ELSE IF preserve_sentences THEN chunk_text_by_sentences(text, chunk_size, overlap)
    ELSE chunk_text_simple(text, chunk_size, overlap)

(***************************************************************************)
(* SpecChunk: chunk_text and chunk_text_simple applied to every text of up *)
(* to MaxText characters, for every chunk_size up to MaxChunkSize and      *)
(* every overlap below chunk_size.                                         *)
(***************************************************************************)
MaxText == 5

MaxChunkSize == 4

Texts == UNION {[1..n -> Chars] : n \in 0..MaxText}

ChunkCall(op, text, chunk_size, overlap, preserve_sentences, chunks) ==
    [op |-> op, outcome |-> "ok", text |-> text, chunk_size |-> chunk_size,
     overlap |-> overlap, preserve_sentences |-> preserve_sentences, chunks |-> chunks]

ChunkText(preserve_sentences) ==
    /\ last.op = "chunk_call"
    /\ last' = ChunkCall("chunk_text", last.text, last.chunk_size, last.overlap,
                         preserve_sentences,
                         chunk_text(last.text, last.chunk_size, last.overlap,
                                    preserve_sentences))
    /\ UNCHANGED <<folders, perms, docs, embs, rag, jobs>>

ChunkTextSimple ==
    /\ last.op = "chunk_call"
    /\ last' = ChunkCall("chunk_text_simple", last.text, last.chunk_size, last.overlap,
                         FALSE,
                         chunk_text_simple(last.text, last.chunk_size, last.overlap))
    /\ UNCHANGED <<folders, perms, docs, embs, rag, jobs>>

InitChunk ==
    /\ folders = <<>>
    /\ perms = {}
    /\ docs = <<>>
    /\ embs = {}
    /\ rag = RagIdle
    /\ jobs = <<>>
    /\ \E text \in Texts, chunk_size \in 1..MaxChunkSize :
       \E overlap \in 0..(chunk_size - 1) :
          last = ChunkCall("chunk_call", text, chunk_size, overlap, FALSE, <<>>)

NextChunk ==
    \/ \E preserve_sentences \in BOOLEAN : ChunkText(preserve_sentences)
    \/ ChunkTextSimple

SpecChunk == InitChunk /\ [][NextChunk]_vars

\* C19 as stated: every chunk chunk_text returns has length at most
\* chunk_size, in the sentence-preserving mode and in the simple mode, for
\* every text and every 0 <= overlap < chunk_size.
C19_ChunkWithinSize ==
    last.op = "chunk_text" =>
        \A i \in 1..Len(last.chunks) : Len(last.chunks[i]) <= last.chunk_size

\* C19, the part the code keeps: the bound holds in the simple mode.
C19_SimpleWithinSize ==
    (last.op = "chunk_text_simple" \/ (last.op = "chunk_text" /\ ~last.preserve_sentences)) =>
        \A i \in 1..Len(last.chunks) : Len(last.chunks[i]) <= last.chunk_size

\* C20 as stated: for a non-blank text without leading or trailing
\* whitespace that is shorter than chunk_size, and 0 <= overlap < chunk_size,
\* chunk_text_simple returns exactly one chunk, equal to the text.
C20_ShortTextOneChunk ==
    (/\ last.op = "chunk_text_simple"
     /\ last.text # <<>>
     /\ strip(last.text) = last.text
     /\ Len(last.text) < last.chunk_size)
        => last.chunks = <<last.text>>

(***************************************************************************)
(* The permission check as a statement about the parent chain.             *)
(***************************************************************************)
\* the folders on the parent chain from folder_id up to its root, folder_id
\* included
RECURSIVE ParentChain(_, _)
ParentChain(folder_id, fuel) ==
    IF fuel = 0 \/ folder_id \notin DOMAIN folders THEN {}
    ELSE {folder_id} \cup
         (IF folders[folder_id].parent_id # NoParent
          THEN ParentChain(folders[folder_id].parent_id, fuel - 1)
          ELSE {})

\* the flag of a Permission row that stands for a capability
FlagFor(p, cap) ==
    CASE cap = "read" -> p.can_read
      [] cap = "write" -> p.can_write
      [] cap = "delete" -> p.can_delete
      [] cap = "admin" -> FALSE

GrantsOn(u, G, cap) ==
    \/ folders[G].owner_id = u
    \/ \E p \in PermissionRows(u, G) : p.is_admin \/ FlagFor(p, cap)

\* C21: for a non-superuser u and an existing folder F the check for cap is
\* true exactly when some folder on the parent chain of F, F included, is
\* owned by u or carries a row of u with is_admin or with the flag of cap
\* (for admin only is_admin counts); rows with other flags only, and rows on
\* folders off the chain, do not count.
C21_ChainCharacterisation ==
    \A u \in Users, F \in DOMAIN folders, cap \in PermissionTypes :
        ~is_superuser(u) =>
            (Check(u, F, cap) <=>
                \E G \in ParentChain(F, Cardinality(FolderIds)) : GrantsOn(u, G, cap))

\* bob holds a read row on f2, below alice's f1: he reads f2, is refused
\* write on f2, and is refused read on f1, the parent of the folder he holds
\* the row on
C21_Witness ==
    /\ folders = ChainTree
    /\ Permission("bob", "f2", ReadOnly, "alice") \in perms
    /\ PermissionRows("bob", "f1") = {}
    /\ Check("bob", "f2", "read")
    /\ ~Check("bob", "f2", "write")
    /\ ~Check("bob", "f2", "admin")
    /\ ~Check("bob", "f1", "read")

(***************************************************************************)
(* GET /folders/ (api/folders.py, list_folders): the accessible folders,   *)
(* each with the capabilities reported for the caller.                     *)
(***************************************************************************)
list_folders(current_user) ==
    LET ids == get_user_accessible_folders(current_user)
    IN  [i \in 1..Len(ids) |->
            [id |-> ids[i],
             can_read |-> TRUE,
             can_write |-> Check(current_user, ids[i], "write"),
             can_delete |-> Check(current_user, ids[i], "delete"),
             is_admin |-> \/ folders[ids[i]].owner_id = current_user
                          \/ Check(current_user, ids[i], "admin")]]

\* C22 as stated: every folder id of the allow-list that query or chat hands
\* to the vector search is one the caller passes the read check on, so a
\* user holding only can_write or can_delete on a folder is never searched
\* there, and list_folders never reports can_read true for such a folder.
C22_AllowListReadable ==
    \A user_id \in Users :
        /\ \A requested \in RequestChoices :
              \A folder_id \in SeqToSet(get_accessible_folders(user_id, requested)) :
                  Check(user_id, folder_id, "read")
        /\ \A i \in 1..Len(list_folders(user_id)) :
              list_folders(user_id)[i].can_read =>
                  Check(user_id, list_folders(user_id)[i].id, "read")

\* what a concurrent search or reader sees of a document: its rows
UniqueChunkIndex(document_id) ==
    \A e \in EmbeddingRows(document_id), g \in EmbeddingRows(document_id) :
        e.chunk_index = g.chunk_index => e = g

\* C23 as stated: while process_document_embeddings regenerates a document
\* that had embeddings, no reader sees the document with zero embeddings or
\* with two rows of one chunk_index; the delete and the insert take effect
\* as one step, so the earlier rows are still there if the regeneration
\* fails.
C23_AtomicRegeneration ==
    /\ \A p \in DOMAIN jobs :
          (jobs[p].pc = "generate" /\ jobs[p].existing) =>
              EmbeddingRows(jobs[p].document_id) # {}
    /\ \A document_id \in DOMAIN docs : UniqueChunkIndex(document_id)

\* C23, the part the code keeps: no two rows of a document share a
\* chunk_index in any state.
C23_NoDuplicateIndex ==
    \A document_id \in DOMAIN docs : UniqueChunkIndex(document_id)

(***************************************************************************)
(* grant_permission as the two steps other requests can come between: the  *)
(* authorization and the lookup of the existing row (permission_service.py *)
(* 98-111), then the flush and commit (113-133).  The endpoint is a plain  *)
(* def, served by a thread of its own with a session of its own.           *)
(*                                                                         *)
(* On commit the session inserts the new row when the lookup found none,   *)
(* which the unique constraint refuses if the pair has a row by then.      *)
(* When the lookup found a row the session issues UPDATE ... WHERE id = :id*)
(* setting the columns whose assigned value differs from the value loaded, *)
(* on the row as it is at that moment; the update fails (no row matched)   *)
(* when the row is gone.                                                   *)
(***************************************************************************)
FlagsOf(row) == Flags(row.can_read, row.can_write, row.can_delete, row.is_admin)

GrantJob(granter_id, user_id, folder_id, flags, loaded, overlapped) ==
    [op |-> "grant", pc |-> "commit", granter_id |-> granter_id, user_id |-> user_id,
     folder_id |-> folder_id, flags |-> flags, loaded |-> loaded,
     overlapped |-> overlapped]

\* the column value the UPDATE leaves: the assigned one where it differs
\* from the loaded one, the stored one otherwise
Updated(assigned, loaded, stored) == IF assigned # loaded THEN assigned ELSE stored

grant_commit(job) ==
    LET rows == PermissionRows(job.user_id, job.folder_id)
        row == Permission(job.user_id, job.folder_id, job.flags, job.granter_id)
    IN  IF job.loaded = None
        THEN IF PermissionInsertAllowed(row)
             THEN [outcome |-> "ok", perms |-> perms \cup {row}]
             ELSE [outcome |-> "IntegrityError", perms |-> perms]
        ELSE IF rows = {}
        THEN [outcome |-> "StaleDataError", perms |-> perms]
        ELSE LET stored == First(rows)
                 merged ==
                     [user_id |-> stored.user_id, folder_id |-> stored.folder_id,
                      can_read |-> Updated(job.flags.can_read, job.loaded.can_read,
                                           stored.can_read),
                      can_write |-> Updated(job.flags.can_write, job.loaded.can_write,
                                            stored.can_write),
                      can_delete |-> Updated(job.flags.can_delete, job.loaded.can_delete,
                                             stored.can_delete),
                      is_admin |-> Updated(job.flags.is_admin, job.loaded.is_admin,
                                           stored.is_admin),
                      granted_by |-> Updated(job.granter_id, job.loaded.granted_by,
                                             stored.granted_by)]
             IN  [outcome |-> "ok", perms |-> (perms \ rows) \cup {merged}]

Granted(outcome, user_id, folder_id, flags, overlapped) ==
    [op |-> "grant", outcome |-> outcome, user_id |-> user_id, folder_id |-> folder_id,
     flags |-> flags, overlapped |-> overlapped]

\* grant_permission up to the lookup of the existing row
GrantStart(p, granter_id, user_id, folder_id, flags) ==
    LET auth == GrantAuthorization(granter_id, folder_id)
    IN  /\ p \notin DOMAIN jobs
        /\ IF auth = "ok"
           THEN /\ jobs' = WithJob(p, GrantJob(granter_id, user_id, folder_id, flags,
                                               First(PermissionRows(user_id, folder_id)),
                                               {}))
                /\ last' = last
           ELSE /\ jobs' = jobs
                /\ last' = Granted(auth, user_id, folder_id, flags, {})
        /\ UNCHANGED <<folders, perms, docs, embs, rag>>

\* the commit; overlapped collects, for every grant still in flight on the
\* same pair, the flags this commit has written under it
GrantCommit(p) ==
    /\ p \in DOMAIN jobs
    /\ jobs[p].op = "grant"
    /\ LET job == jobs[p]
           r == grant_commit(job)
       IN  /\ perms' = r.perms
           /\ jobs' = [q \in DOMAIN jobs \ {p} |->
                          IF /\ r.outcome = "ok"
                             /\ jobs[q].user_id = job.user_id
                             /\ jobs[q].folder_id = job.folder_id
                          THEN [jobs[q] EXCEPT !.overlapped = @ \cup {job.flags}]
                          ELSE jobs[q]]
           /\ last' = Granted(r.outcome, job.user_id, job.folder_id, job.flags,
                              job.overlapped)
    /\ UNCHANGED <<folders, docs, embs, rag>>

GrantPairs == {<<"bob", "f1">>}

Granters == {"alice", "bob"}

InitGrant ==
    /\ folders = ChainTree
    /\ perms \in {{}, {Permission("bob", "f1", ReadOnly, "alice")}}
    /\ docs = <<>>
    /\ embs = {}
    /\ rag = RagIdle
    /\ jobs = <<>>
    /\ last = Last("init", "ok")

NextGrant ==
    \/ \E p \in Procs, granter_id \in Granters, pair \in GrantPairs, flags \in FlagChoices :
          GrantStart(p, granter_id, pair[1], pair[2], flags)
    \/ \E p \in Procs : GrantCommit(p)

SpecGrant == InitGrant /\ [][NextGrant]_vars

\* C24 as stated: when two grants for one (user, folder) pair interleave
\* between the lookup and the commit, the store ends with exactly one row
\* for the pair, carrying the flags of one of the two grants.
C24_InterleavedGrants ==
    (last.op = "grant" /\ last.overlapped # {}) =>
        \E row \in perms :
            /\ PermissionRows(last.user_id, last.folder_id) = {row}
            /\ FlagsOf(row) \in {last.flags} \cup last.overlapped

\* C24, the part the code keeps: interleaved grants never leave two rows for
\* one pair.
C24_OneRow == UniquePairs

\* C25: within one query or chat call the allow-list is resolved once, when
\* the call starts and before any reformulation, embedding or search call;
\* it stays what it is while the call is suspended, whatever is granted or
\* revoked meanwhile, and the search runs on it; a call that starts later
\* resolves its list against the store as it is then.
C25_Snapshot ==
    [][/\ (rag.pc = "idle" /\ rag'.pc # "idle" /\ rag'.outcome # "BadRequest") =>
             /\ rag'.accessible_folders =
                   get_accessible_folders(rag'.user_id, rag'.requested)
             /\ NoExternalCall(rag')
       /\ (rag.pc # "idle" /\ rag'.pc # "idle") =>
             rag'.accessible_folders = rag.accessible_folders
       /\ rag'.search_calls > rag.search_calls =>
             rag'.searched = rag.accessible_folders]_vars

\* bob's search has run on a folder that a revoke, committed while the call
\* was suspended, has since taken from his accessible folders
C25_Witness ==
    /\ rag.user_id = "bob"
    /\ rag.search_calls > 0
    /\ rag.searched # <<>>
    /\ rag.searched = rag.accessible_folders
    /\ get_accessible_folders("bob", rag.requested) = <<>>
    /\ last = Last("revoke", "True")

\* C26 as stated: search_similar_chunks called with an empty folder_ids list
\* returns the empty result list, without raising.
C26_EmptyFolderIds ==
    (last.op = "search" /\ last.folder_ids = <<>>) =>
        (last.outcome = "ok" /\ last.chunks = <<>>)

\* the last n messages of a history that precede its newest message
Preceding(history, n) == SubSeq(history, Len(history) - n, Len(history) - 1)

\* C27 as stated: for a history of more than one message the reformulation
\* makes exactly one inference call, with the last min(5, len - 1) messages
\* before the newest one as context and the newest message as the query to
\* rewrite, called directly or reached through chat with a longer history.
C27_ContextWindow ==
    (last.op = "reformulate" /\ Len(last.history) > 1) =>
        /\ last.calls = 1
        /\ last.context = Preceding(last.history, Min(MaxHistory, Len(last.history) - 1))
        /\ last.rewritten = last.history[Len(last.history)].content

\* C27, the part the code keeps: called directly on a history of more than
\* one message that ends with a user message, it makes one call with that
\* context and that query.
C27_DirectCall ==
    (/\ last.op = "reformulate" /\ Len(last.history) > 1
     /\ last.messages = last.history
     /\ last.history[Len(last.history)].role = "user") =>
        /\ last.calls = 1
        /\ last.context = Preceding(last.history, Min(MaxHistory, Len(last.history) - 1))
        /\ last.rewritten = last.history[Len(last.history)].content

\* the content of the latest user message of a history that has one
LatestUserMessage(messages) == UserMessages(messages)[Len(UserMessages(messages))].content

\* the answers of the model that are kept: at least 5 characters once stripped
Usable(content) == strip_content(content) # "" /\ Len(strip_content(content)) >= 5

\* C28: when the inference call raises, or its stripped output is empty or
\* shorter than 5 characters, _reformulate_query returns the latest user
\* message unchanged, and otherwise the stripped output; in chat such a
\* failure does not end the request, which goes on to the embedding call
\* with the original message, while a failed embedding or answer call ends
\* it with BadRequest.
C28_Fallback ==
    [][/\ rag.pc = "reformulate" =>
             LET messages == Trailing(rag.messages, MaxHistory)
             IN  \A r \in reformulate_query(messages) :
                    r.calls = 1 =>
                        /\ r.outcome = "ok"
                        /\ r.query = IF r.raised \/ ~Usable(r.content)
                                     THEN LatestUserMessage(messages)
                                     ELSE strip_content(r.content)
       /\ (/\ rag.pc = "reformulate" /\ rag'.pc # "reformulate"
           /\ UserMessages(Trailing(rag.messages, MaxHistory)) # <<>>) =>
             /\ rag'.pc = "embed"
             /\ rag'.outcome = "pending"
             /\ rag'.query \in
                   {LatestUserMessage(Trailing(rag.messages, MaxHistory))}
                       \cup {strip_content(c) : c \in {o \in InferenceOutputs : Usable(o)}}
       /\ (rag.pc \in {"embed", "answer"} /\ rag'.pc = "done" /\ rag'.outcome # "ok") =>
             rag'.outcome = "BadRequest"]_vars

\* a chat of three messages made its inference call, fell back to the latest
\* user message, and has gone on through the embedding call to the search
C28_Witness ==
    /\ rag.kind = "chat"
    /\ Len(rag.messages) = 3
    /\ rag.reformulate_calls = 1
    /\ rag.query = "m3"
    /\ rag.embed_calls = 1
    /\ rag.pc = "search"

\* C29 as stated: in every state create_folder and update_folder calls
\* reach, each folder's path is its parent's current path, "/" and its own
\* name, or "/" and its name for a root folder, the descendants of a renamed
\* folder included.
C29_PathInvariant ==
    \A f \in DOMAIN folders :
        folders[f].path =
            IF folders[f].parent_id = NoParent THEN "/" \o folders[f].name
            ELSE folders[folders[f].parent_id].path \o "/" \o folders[f].name

\* C29, the part the code keeps: the folder a create_folder or update_folder
\* call has just written carries the path built from its parent's path.
C29_WrittenFolderPath ==
    [][\A f \in DOMAIN folders' :
          (f \notin DOMAIN folders \/ folders'[f] # folders[f]) =>
              folders'[f].path =
                  IF folders'[f].parent_id = NoParent THEN "/" \o folders'[f].name
                  ELSE folders'[folders'[f].parent_id].path \o "/" \o folders'[f].name]_vars

(***************************************************************************)
(* SpecChunkLoop: the while loop of chunk_text_simple (text_chunking.py    *)
(* 35-44) one iteration at a time, for every text of up to MaxText         *)
(* characters, chunk_size up to MaxChunkSize and overlap from 0 up to      *)
(* chunk_size.  The state is what the loop's control depends on: start,    *)
(* and pc, "loop" before the test of the while condition and "returned"    *)
(* after the return; passes is the number of passes made, modulo 2.  The   *)
(* chunks appended on the way do not enter it.                             *)
(***************************************************************************)
LoopState(text, chunk_size, overlap, start_, pc) ==
    [op |-> "chunk_text_simple", outcome |-> "ok", text |-> text,
     chunk_size |-> chunk_size, overlap |-> overlap, start |-> start_, pc |-> pc,
     passes |-> 0]

\* lines 35-44 with start < len(text): one pass of the body
SimpleIterate ==
    /\ last.op = "chunk_text_simple"
    /\ last.pc = "loop"
    /\ last.start < Len(last.text)
    /\ LET end == last.start + last.chunk_size
           next == end - last.overlap
       IN  last' = IF next >= Len(last.text)
                   THEN [last EXCEPT !.start = next, !.pc = "returned",
                                     !.passes = (@ + 1) % 2]
                   ELSE [last EXCEPT !.start = next, !.passes = (@ + 1) % 2]
    /\ UNCHANGED <<folders, perms, docs, embs, rag, jobs>>

\* line 35 with start >= len(text), then line 46
SimpleExit ==
    /\ last.op = "chunk_text_simple"
    /\ last.pc = "loop"
    /\ ~(last.start < Len(last.text))
    /\ last' = [last EXCEPT !.pc = "returned"]
    /\ UNCHANGED <<folders, perms, docs, embs, rag, jobs>>

InitChunkLoop ==
    /\ folders = <<>>
    /\ perms = {}
    /\ docs = <<>>
    /\ embs = {}
    /\ rag = RagIdle
    /\ jobs = <<>>
    /\ \E text \in Texts, chunk_size \in 1..MaxChunkSize :
       \E overlap \in 0..chunk_size :
          last = LoopState(text, chunk_size, overlap, 0, "loop")

NextChunkLoop == SimpleIterate \/ SimpleExit

\* the interpreter keeps running the loop
SpecChunkLoop == InitChunkLoop /\ [][NextChunkLoop]_vars /\ WF_vars(NextChunkLoop)

\* C30 as stated: chunk_text_simple terminates for every text, every
\* chunk_size >= 1 and every overlap >= 0, overlap >= chunk_size included.
C30_Terminates == <>(last.pc = "returned")

\* C30, the part the code keeps: with overlap < chunk_size every pass of
\* the loop moves start forward.
C30_Progress ==
    [][(/\ last.overlap < last.chunk_size /\ last.pc = "loop"
        /\ last.start < Len(last.text)) =>
          last'.start > last.start]_vars

====
